---- MODULE Spec2Model ----
(***************************************************************************)
(* Verification model of the KhmerCoders bot: the message counter store    *)
(* (users, chat_counter), trackMessage, the statistics engine, the         *)
(* in-memory rate limiter, the /api middleware and the webhook adapters.   *)
(*                                                                         *)
(* JS strings are sequences of one-character strings, so toLowerCase,      *)
(* trim and startsWith are computed and not assumed.  A JS number is a     *)
(* pair <<num, den>>: den = 1 an integer, den = 2 a half, den = 0 NaN.     *)
(***************************************************************************)
EXTENDS Integers, Sequences, FiniteSets, TLC

VARIABLES
    today,          \* the current UTC calendar day (a day number)
    users,          \* table users: <<platform, user_id>> -> display_name
    chat_counter,   \* table chat_counter: <<chat_date, platform, user_id>> -> row
    calls,          \* the trackMessage calls in flight, one per slot
    started,        \* number of trackMessage calls made so far
    tracked,        \* per counter key: how many calls returned normally, and their lengths
    now,            \* Date.now(), in milliseconds
    requests,       \* per limiter instance: its Map key -> timestamps
    accepted,       \* per limiter and key: the instants of the accepted checks still
                    \* less than windowMs old
    lastCheck,      \* the last limiter call and what it returned
    reader,         \* the statistics call in progress, or the last one and its result
    http,           \* the /api request being served and its response
    hook,           \* the webhook request being served and its response
    received,       \* number of webhook requests received so far
    telegram_channel_messages,  \* table telegram_channel_messages, in insertion order
    inserts,        \* channel-message statements sent and not yet executed
    overview,       \* the GET /api/overview request being served and its response
    util,           \* the last call of a security helper: its arguments and result
    task            \* the command handler last handed to waitUntil, and how far it is

storeVars == <<users, chat_counter>>
trackVars == <<today, users, chat_counter, calls, started, tracked>>
limiterVars == <<now, requests, accepted, lastCheck>>
hookVars == <<hook, received, telegram_channel_messages, inserts>>
restVars == <<overview, util>>
otherThanTrack == <<limiterVars, reader, http, hookVars, restVars, task>>
otherThanLimiter == <<trackVars, reader, http, hookVars, restVars, task>>
otherThanReader == <<trackVars, limiterVars, http, hookVars, restVars, task>>

-----------------------------------------------------------------------------
(* Bounds of the exploration *)

MaxCalls == 3
MaxStatsCalls == 2
MaxWindows == 2
MaxApiWindows == 1
MaxUpdates == 2

\* the updates with a command the Telegram adapter is followed over
MaxCommands == 3

\* the updates with a rate-limited command
MaxLimitedCommands == 6

\* the trackMessage calls made while getUserStats and the all-time leaderboard
\* are read
MaxRankedCalls == 3

\* texts handed to the security helpers are made of at most MaxBlocks pieces
MaxBlocks == 3

\* the largest explicit maxLength handed to sanitizeInput
MaxLength == 3

\* two trackMessage calls can be in flight at a time
Slots == {1, 2}

\* The days the clock is observed on.  Months have 30 days here, so day 30 is the
\* last day of a month, day 31 the first of the next one and day 39 is more
\* than a week after both.
Days == {30, 31, 39}

-----------------------------------------------------------------------------
(* JS strings and numbers *)

UpperSeq == <<"A","B","C","D","E","F","G","H","I","J","K","L","M",
              "N","O","P","Q","R","S","T","U","V","W","X","Y","Z">>
LowerSeq == <<"a","b","c","d","e","f","g","h","i","j","k","l","m",
              "n","o","p","q","r","s","t","u","v","w","x","y","z">>

LowerChar(c) ==
    IF \E i \in 1..Len(UpperSeq) : UpperSeq[i] = c
    THEN LowerSeq[CHOOSE i \in 1..Len(UpperSeq) : UpperSeq[i] = c]
    ELSE c

\* String.prototype.toLowerCase
ToLowerCase(s) == [i \in 1..Len(s) |-> LowerChar(s[i])]

WhiteSpace == {" ", "\t", "\n"}

RECURSIVE TrimStart(_)
TrimStart(s) ==
    IF s # <<>> /\ Head(s) \in WhiteSpace THEN TrimStart(Tail(s)) ELSE s

RECURSIVE TrimEnd(_)
TrimEnd(s) ==
    IF s # <<>> /\ s[Len(s)] \in WhiteSpace
    THEN TrimEnd(SubSeq(s, 1, Len(s) - 1))
    ELSE s

\* String.prototype.trim
Trim(s) == TrimEnd(TrimStart(s))

\* String.prototype.startsWith
StartsWith(s, prefix) ==
    Len(s) >= Len(prefix) /\ SubSeq(s, 1, Len(prefix)) = prefix

Num(n) == <<n, 1>>
Half(n) == <<n, 2>>
NaN == <<0, 0>>

\* Number.isInteger
IsInteger(x) == x[2] = 1

TELEGRAM == <<"t","e","l","e","g","r","a","m">>
DISCORD == <<"d","i","s","c","o","r","d">>

Platforms == {TELEGRAM, DISCORD}

-----------------------------------------------------------------------------
(* The inputs the calls are made with *)

PlatformInputs ==
    { TELEGRAM,
      <<"D","i","s","c","o","r","d">>,
      <<"x","y","z">>,
      <<>> }

UserIdInputs == { <<"7">>, <<" ","7">>, <<" ">>, <<>> }

NameInputs == { <<"A","n","n">>, <<"B","o"," ">>, <<" ">> }

LengthInputs == { Num(0), Num(3), Num(-1), Half(3), NaN }

-----------------------------------------------------------------------------
(* trackMessage *)

\* validateTrackingParams: TRUE when it returns, FALSE when it throws
validateTrackingParamsAnyInteger(platform, userId, displayName, messageLength) ==
    /\ platform # <<>>
    /\ ToLowerCase(platform) \in {TELEGRAM, DISCORD}
    /\ userId # <<>>
    /\ Trim(userId) # <<>>
    /\ displayName # <<>>
    /\ Trim(displayName) # <<>>
    /\ IsInteger(messageLength)

validateTrackingParams(platform, userId, displayName, messageLength) ==
    /\ platform # <<>>
    /\ ToLowerCase(platform) \in {TELEGRAM, DISCORD}
    /\ userId # <<>>
    /\ Trim(userId) # <<>>
    /\ displayName # <<>>
    /\ Trim(displayName) # <<>>
    /\ IsInteger(messageLength)
    /\ messageLength[1] >= 0

\* a slot: the state of the call, the bound values of its statements, the
\* number of statements sent, and of the arguments the platform as given and
\* whether userId or displayName is blank or messageLength no integer >= 0
IdleCall ==
    [st |-> "idle", platform |-> <<>>, userId |-> <<>>, name |-> <<>>,
     len |-> 0, date |-> 0, stmts |-> 0, rawPlatform |-> <<>>, badArg |-> FALSE]

Blank(str) == \A i \in 1..Len(str) : str[i] \in WhiteSpace

\* trackMessage up to its first await: validation, the date, the sanitized
\* values, and the first statement sent
BegunCall(platform, userId, displayName, messageLength, day) ==
    IF validateTrackingParams(platform, userId, displayName, messageLength)
    THEN [st |-> "ensureUser",
          platform |-> Trim(ToLowerCase(platform)),
          userId |-> Trim(userId),
          name |-> Trim(displayName),
          len |-> messageLength[1],
          date |-> day,
          stmts |-> 1,
          rawPlatform |-> platform,
          badArg |-> Blank(userId) \/ Blank(displayName)
                        \/ messageLength[2] # 1 \/ messageLength[1] < 0]
    ELSE [IdleCall EXCEPT !.st = "rejected",
                          !.rawPlatform = platform,
                          !.badArg = Blank(userId) \/ Blank(displayName)
                                        \/ messageLength[2] # 1 \/ messageLength[1] < 0]

\* INSERT OR IGNORE INTO users (platform, user_id, display_name)
InsertUserDropped(u, platform, userId, name) == u

InsertOrReplaceUser(u, platform, userId, name) ==
    [k \in DOMAIN u \cup {<<platform, userId>>} |->
        IF k = <<platform, userId>> THEN name ELSE u[k]]

InsertOrIgnoreUser(u, platform, userId, name) ==
    IF <<platform, userId>> \in DOMAIN u
    THEN u
    ELSE u @@ (<<platform, userId>> :> name)

\* INSERT INTO chat_counter ... VALUES (?, ?, ?, 1, ?)
\* ON CONFLICT DO UPDATE SET message_count = message_count + 1,
\*                           message_length = message_length + ?
UpsertCounterLengthKept(cc, date, platform, userId, len) ==
    LET key == <<date, platform, userId>> IN
    IF key \in DOMAIN cc
    THEN [cc EXCEPT ![key] = [message_count |-> @.message_count + 1,
                              message_length |-> @.message_length]]
    ELSE cc @@ (key :> [message_count |-> 1, message_length |-> len])

UpsertCounterReplace(cc, date, platform, userId, len) ==
    LET key == <<date, platform, userId>> IN
    [k \in DOMAIN cc \cup {key} |->
        IF k = key THEN [message_count |-> 1, message_length |-> len] ELSE cc[k]]

UpsertCounter(cc, date, platform, userId, len) ==
    LET key == <<date, platform, userId>> IN
    IF key \in DOMAIN cc
    THEN [cc EXCEPT ![key] = [message_count |-> @.message_count + 1,
                              message_length |-> @.message_length + len]]
    ELSE cc @@ (key :> [message_count |-> 1, message_length |-> len])

CallKey(c) == <<c.date, c.platform, c.userId>>

InFlight(c) == c.st \in {"ensureUser", "updateCounter"}

\* the ledger of the calls that returned normally: per counter key their number,
\* the sum of their lengths, and whether one of them completed while another
\* call for the same key was in flight
Credit(t, key, len, raced) ==
    IF key \in DOMAIN t
    THEN [t EXCEPT ![key] = [n |-> @.n + 1, sum |-> @.sum + len,
                             raced |-> @.raced \/ raced]]
    ELSE t @@ (key :> [n |-> 1, sum |-> len, raced |-> raced])

\* a caller invokes trackMessage
TrackStart(i, platform, userId, displayName, messageLength) ==
    /\ calls[i].st = "idle"
    /\ calls' = [calls EXCEPT
                   ![i] = BegunCall(platform, userId, displayName, messageLength, today)]
    /\ started' = started + 1
    /\ UNCHANGED <<today, users, chat_counter, tracked>>
    /\ UNCHANGED otherThanTrack

\* the store executes the users statement; trackMessage sends the counter statement
EnsureUser(i) ==
    /\ calls[i].st = "ensureUser"
    /\ users' = InsertOrIgnoreUser(users, calls[i].platform, calls[i].userId, calls[i].name)
    /\ calls' = [calls EXCEPT ![i].st = "updateCounter", ![i].stmts = 2]
    /\ UNCHANGED <<today, chat_counter, started, tracked>>
    /\ UNCHANGED otherThanTrack

\* the users statement fails: executeTrackingMutation rethrows, trackMessage throws
EnsureUserFails(i) ==
    /\ calls[i].st = "ensureUser"
    /\ calls' = [calls EXCEPT ![i] = [IdleCall EXCEPT !.st = "failed", !.stmts = 1]]
    /\ UNCHANGED <<today, users, chat_counter, started, tracked>>
    /\ UNCHANGED otherThanTrack

\* the store executes the counter upsert and trackMessage returns
UpdateCounter(i) ==
    /\ calls[i].st = "updateCounter"
    /\ chat_counter' = UpsertCounter(chat_counter, calls[i].date, calls[i].platform,
                                     calls[i].userId, calls[i].len)
    /\ calls' = [calls EXCEPT ![i] = [IdleCall EXCEPT !.st = "done", !.stmts = 2]]
    /\ tracked' = Credit(tracked, CallKey(calls[i]), calls[i].len,
                         \E j \in Slots \ {i} :
                            InFlight(calls[j]) /\ CallKey(calls[j]) = CallKey(calls[i]))
    /\ UNCHANGED <<today, users, started>>
    /\ UNCHANGED otherThanTrack

\* the counter statement fails: trackMessage throws
UpdateCounterFails(i) ==
    /\ calls[i].st = "updateCounter"
    /\ calls' = [calls EXCEPT ![i] = [IdleCall EXCEPT !.st = "failed", !.stmts = 2]]
    /\ UNCHANGED <<today, users, chat_counter, started, tracked>>
    /\ UNCHANGED otherThanTrack

\* the caller has taken the outcome; the slot is free for the next call
TrackReturn(i) ==
    /\ calls[i].st \in {"done", "failed", "rejected"}
    /\ calls' = [calls EXCEPT ![i] = IdleCall]
    /\ UNCHANGED <<today, users, chat_counter, started, tracked>>
    /\ UNCHANGED otherThanTrack

\* midnight UTC passes
AdvanceDay(d) ==
    /\ d > today
    /\ today' = d
    /\ UNCHANGED <<users, chat_counter, calls, started, tracked>>
    /\ UNCHANGED otherThanTrack

-----------------------------------------------------------------------------
(* Statistics and leaderboards *)

\* validateDatabaseParams: TRUE when it returns, FALSE when it throws
validateDatabaseParamsNoUpperLimit(platform, limit) ==
    /\ platform # <<>>
    /\ ToLowerCase(platform) \in {TELEGRAM, DISCORD}
    /\ IsInteger(limit)
    /\ limit[1] >= 1

validateDatabaseParams(platform, limit) ==
    /\ platform # <<>>
    /\ ToLowerCase(platform) \in {TELEGRAM, DISCORD}
    /\ IsInteger(limit)
    /\ limit[1] >= 1
    /\ limit[1] <= 1000

\* the checks at the head of getUserStats
validateUserStatsParams(platform, userId) ==
    /\ platform # <<>>
    /\ ToLowerCase(platform) \in {TELEGRAM, DISCORD}
    /\ userId # <<>>
    /\ Trim(userId) # <<>>

\* weekAgo.setDate(weekAgo.getDate() - 7)
WeekAgoNineDays(day) == day - 9

WeekAgo(day) == day - 7

\* new Date(now.getFullYear(), now.getMonth(), 1), months of 30 days
StartOfMonthAhead(day) == day - ((day - 1) % 30) + 30

StartOfMonth(day) == day - ((day - 1) % 30)

\* the WHERE clause on chat_date: = ?, >= ?, or none
OnDay(day) == [kind |-> "on", day |-> day]
Since(day) == [kind |-> "since", day |-> day]
AnyDay == [kind |-> "any", day |-> 0]

DateMatches(f, date) ==
    CASE f.kind = "on" -> date = f.day
      [] f.kind = "since" -> date >= f.day
      [] f.kind = "any" -> TRUE

\* the chat_counter rows of a platform (and a user) that a WHERE clause selects
CounterRows(cc, platform, f) ==
    { k \in DOMAIN cc : k[2] = platform /\ DateMatches(f, k[1]) }

UserCounterRows(cc, platform, userId, f) ==
    { k \in CounterRows(cc, platform, f) : k[3] = userId }

RECURSIVE SumCount(_, _)
SumCount(cc, keys) ==
    IF keys = {} THEN 0
    ELSE LET k == CHOOSE x \in keys : TRUE
         IN cc[k].message_count + SumCount(cc, keys \ {k})

RECURSIVE SumLength(_, _)
SumLength(cc, keys) ==
    IF keys = {} THEN 0
    ELSE LET k == CHOOSE x \in keys : TRUE
         IN cc[k].message_length + SumLength(cc, keys \ {k})

\* FROM chat_counter cc JOIN users u ON cc.platform = u.platform AND
\* cc.user_id = u.user_id WHERE ... GROUP BY cc.user_id, u.display_name
\* (the daily query selects the single row of the day: the same sums)
LeaderboardGroups(cc, u, platform, f) ==
    { [user_id |-> id,
       display_name |-> u[<<platform, id>>],
       total_messages |-> SumCount(cc, UserCounterRows(cc, platform, id, f)),
       total_length |-> SumLength(cc, UserCounterRows(cc, platform, id, f))] :
      id \in { k[3] : k \in { x \in CounterRows(cc, platform, f) :
                                <<platform, x[3]>> \in DOMAIN u } } }

\* ORDER BY total_messages DESC, total_length DESC: a may stand before b
RowBeforeLengthIgnored(a, b) == a.total_messages >= b.total_messages

RowBefore(a, b) ==
    \/ a.total_messages > b.total_messages
    \/ a.total_messages = b.total_messages /\ a.total_length >= b.total_length

\* the orders the store may return the groups in
OrderedRows(groups) ==
    { s \in [1..Cardinality(groups) -> groups] :
        /\ \A i, j \in 1..Cardinality(groups) : i # j => s[i] # s[j]
        /\ \A i \in 1..(Cardinality(groups) - 1) : RowBefore(s[i], s[i + 1]) }

\* LIMIT ?
Limit(rows, n) == SubSeq(rows, 1, IF n < Len(rows) THEN n ELSE Len(rows))

\* ROW_NUMBER() OVER (ORDER BY total_messages DESC) of a user among the
\* per-user sums of a platform; rows with equal sums are numbered in any order;
\* no row for a user without counters (0 stands for the null result)
RankResultsTiesShare(cc, platform, userId) ==
    LET ids == { k[3] : k \in CounterRows(cc, platform, AnyDay) }
        total(id) == SumCount(cc, UserCounterRows(cc, platform, id, AnyDay))
        above == { id \in ids : total(id) > total(userId) }
    IN IF userId \notin ids THEN {0} ELSE { Cardinality(above) + 1 }

RankResultsAscending(cc, platform, userId) ==
    LET ids == { k[3] : k \in CounterRows(cc, platform, AnyDay) }
        total(id) == SumCount(cc, UserCounterRows(cc, platform, id, AnyDay))
        above == { id \in ids : total(id) < total(userId) }
        level == { id \in ids \ {userId} : total(id) = total(userId) }
    IN IF userId \notin ids THEN {0}
       ELSE { Cardinality(above) + 1 + n : n \in 0..Cardinality(level) }

RankResults(cc, platform, userId) ==
    LET ids == { k[3] : k \in CounterRows(cc, platform, AnyDay) }
        total(id) == SumCount(cc, UserCounterRows(cc, platform, id, AnyDay))
        above == { id \in ids : total(id) > total(userId) }
        level == { id \in ids \ {userId} : total(id) = total(userId) }
    IN IF userId \notin ids THEN {0}
       ELSE { Cardinality(above) + 1 + n : n \in 0..Cardinality(level) }

\* the user ids with counters on a platform and their all-time sums
RankedIds(cc, platform) == { k[3] : k \in CounterRows(cc, platform, AnyDay) }

AllTimeTotal(cc, platform, userId) ==
    SumCount(cc, UserCounterRows(cc, platform, userId, AnyDay))

\* the numberings ROW_NUMBER() OVER (ORDER BY total_messages DESC) may give to
\* the rows of user_totals
RowNumbers(cc, platform) ==
    LET ids == RankedIds(cc, platform)
    IN { nb \in [ids -> 1..Cardinality(ids)] :
           /\ \A a, b \in ids : a # b => nb[a] # nb[b]
           /\ \A a, b \in ids :
                 AllTimeTotal(cc, platform, a) > AllTimeTotal(cc, platform, b)
                     => nb[a] < nb[b] }

Leaderboards == {"daily", "weekly", "monthly", "all"}

\* the number of statements a statistics function sends
Statements(fn) ==
    CASE fn \in Leaderboards -> 1
      [] fn = "platformStats" -> 4
      [] fn = "userStats" -> 5

\* what the n-th statement of the call may return from the store as it is now
\* (a SUM over no row, and a missing first() row, are read as 0 by `|| 0`)
StatementResults(r, n, cc, u) ==
    CASE r.fn \in Leaderboards ->
            { Limit(s, r.limit) :
                s \in OrderedRows(LeaderboardGroups(cc, u, r.platform, r.filter)) }
      [] r.fn = "platformStats" /\ n = 1 ->
            { Cardinality({ k[2] : k \in { x \in DOMAIN u : x[1] = r.platform } }) }
      [] r.fn = "platformStats" /\ n = 2 ->
            { SumCount(cc, CounterRows(cc, r.platform, AnyDay)) }
      [] r.fn = "platformStats" /\ n = 3 ->
            { Cardinality({ k[3] : k \in CounterRows(cc, r.platform, OnDay(r.day)) }) }
      [] r.fn = "platformStats" /\ n = 4 ->
            { Cardinality({ k[3] : k \in CounterRows(cc, r.platform, Since(WeekAgo(r.day))) }) }
      [] r.fn = "userStats" /\ n = 1 ->
            { SumCount(cc, UserCounterRows(cc, r.platform, r.userId, OnDay(r.day))) }
      [] r.fn = "userStats" /\ n = 2 ->
            { SumCount(cc, UserCounterRows(cc, r.platform, r.userId, Since(WeekAgo(r.day)))) }
      [] r.fn = "userStats" /\ n = 3 ->
            { SumCount(cc, UserCounterRows(cc, r.platform, r.userId, Since(StartOfMonth(r.day)))) }
      [] r.fn = "userStats" /\ n = 4 ->
            { SumCount(cc, UserCounterRows(cc, r.platform, r.userId, AnyDay)) }
      [] r.fn = "userStats" /\ n = 5 ->
            RankResults(cc, r.platform, r.userId)

\* reader: the function, its state, the bound values of its statements, the
\* statements sent, the results so far, and of the arguments the platform as
\* given and whether the limit or the userId is outside its range
NoRead ==
    [fn |-> "none", st |-> "idle", platform |-> <<>>, userId |-> <<>>, limit |-> 0,
     filter |-> AnyDay, day |-> 0, stmts |-> 0, res |-> <<>>,
     rawPlatform |-> <<>>, badArg |-> FALSE]

\* a function that passed its validation and sent its first statement
Reading(fn, platform, userId, limit, filter, day) ==
    [NoRead EXCEPT !.fn = fn, !.st = "query", !.platform = ToLowerCase(platform),
                   !.userId = Trim(userId), !.limit = limit, !.filter = filter,
                   !.day = day, !.stmts = 1, !.rawPlatform = platform]

Threw(fn, platform, badArg) ==
    [NoRead EXCEPT !.fn = fn, !.st = "threw", !.rawPlatform = platform,
                   !.badArg = badArg]

LimitOutOfRange(limit) == limit[2] # 1 \/ limit[1] < 1 \/ limit[1] > 1000

\* getDailyLeaderboard(db, platform, date, limit); date 0 is no date given
\* getWeeklyLeaderboard, getMonthlyLeaderboard, getAllTimeLeaderboard(db, platform, limit)
LeaderboardCall(fn, platform, date, limit) ==
    /\ reader.st = "idle"
    /\ fn \in Leaderboards
    /\ fn # "daily" => date = 0
    /\ reader' =
         IF validateDatabaseParams(platform, limit)
         THEN [Reading(fn, platform, <<>>, limit[1],
                       CASE fn = "daily" -> OnDay(IF date # 0 THEN date ELSE today)
                         [] fn = "weekly" -> Since(WeekAgo(today))
                         [] fn = "monthly" -> Since(StartOfMonth(today))
                         [] fn = "all" -> AnyDay,
                       today)
               EXCEPT !.badArg = LimitOutOfRange(limit)]
         ELSE Threw(fn, platform, LimitOutOfRange(limit))
    /\ UNCHANGED otherThanReader

\* getPlatformStats(db, platform)
PlatformStatsCall(platform) ==
    /\ reader.st = "idle"
    /\ reader' =
         IF validateDatabaseParams(platform, Num(10))
         THEN Reading("platformStats", platform, <<>>, 0, AnyDay, today)
         ELSE Threw("platformStats", platform, FALSE)
    /\ UNCHANGED otherThanReader

\* getUserStats(db, platform, userId)
UserStatsCall(platform, userId) ==
    /\ reader.st = "idle"
    /\ reader' =
         IF validateUserStatsParams(platform, userId)
         THEN [Reading("userStats", platform, userId, 0, AnyDay, today)
               EXCEPT !.badArg = Blank(userId)]
         ELSE Threw("userStats", platform, Blank(userId))
    /\ UNCHANGED otherThanReader

\* the store answers the statement awaited; the function sends the next one,
\* or returns after its last
ReadStep ==
    /\ reader.st = "query"
    /\ \E result \in StatementResults(reader, Len(reader.res) + 1, chat_counter, users) :
          reader' = [reader EXCEPT
                       !.res = Append(@, result),
                       !.st = IF Len(reader.res) + 1 = Statements(reader.fn)
                              THEN "returned" ELSE "query",
                       !.stmts = IF Len(reader.res) + 1 = Statements(reader.fn)
                                 THEN @ ELSE @ + 1]
    /\ UNCHANGED otherThanReader

\* the statement awaited fails: executeQueryAll / executeQueryFirst rethrow
ReadFails ==
    /\ reader.st = "query"
    /\ reader' = [reader EXCEPT !.st = "threw"]
    /\ UNCHANGED otherThanReader

\* the caller takes the result or the error
ReadReturn ==
    /\ reader.st \in {"returned", "threw"}
    /\ reader' = NoRead
    /\ UNCHANGED otherThanReader

-----------------------------------------------------------------------------
(* RateLimiter *)

commandRateLimiter == [maxRequests |-> 5, windowMs |-> 60000]
summaryRateLimiter == [maxRequests |-> 2, windowMs |-> 300000]
apiRateLimiter == [maxRequests |-> 60, windowMs |-> 60000]

Limiters == {"command", "summary", "api"}

Limiter(L) ==
    CASE L = "command" -> commandRateLimiter
      [] L = "summary" -> summaryRateLimiter
      [] L = "api" -> apiRateLimiter

\* the keys the limiters are called with
LimiterKeys == { <<"7">>, <<"8">>, <<"9">>, <<"u","n","k","n","o","w","n">>, <<"1",".","1">>, <<"2",".","2">> }

Max(a, b) == IF a >= b THEN a ELSE b

RECURSIVE SeqMin(_)
SeqMin(s) ==
    IF Len(s) = 1 THEN s[1]
    ELSE LET m == SeqMin(Tail(s)) IN IF s[1] <= m THEN s[1] ELSE m

\* this.requests.get(key) || []
GetRequests(map, key) == IF key \in DOMAIN map THEN map[key] ELSE <<>>

\* this.requests.set(key, value)
SetRequests(map, key, value) ==
    [k \in DOMAIN map \cup {key} |-> IF k = key THEN value ELSE map[k]]

\* the filter predicate: now - timestamp < this.windowMs
NotExpiredInclusive(t, timestamp, windowMs) == t - timestamp <= windowMs

NotExpired(t, timestamp, windowMs) == t - timestamp < windowMs

\* validRequests = userRequests.filter(...)
ValidRequests(map, key, t, windowMs) ==
    SelectSeq(GetRequests(map, key), LAMBDA ts : NotExpired(t, ts, windowMs))

\* validRequests.length >= this.maxRequests
AtLimitOffByOne(n, maxRequests) == n > maxRequests

AtLimit(n, maxRequests) == n >= maxRequests

\* what isRateLimited(key) returns at instant t
isRateLimited(map, cfg, key, t) ==
    AtLimit(Len(ValidRequests(map, key, t, cfg.windowMs)), cfg.maxRequests)

\* the Map after isRateLimited(key) at instant t
AfterIsRateLimitedRecordsRejected(map, cfg, key, t) ==
    SetRequests(map, key, Append(ValidRequests(map, key, t, cfg.windowMs), t))

AfterIsRateLimitedUnpruned(map, cfg, key, t) ==
    IF isRateLimited(map, cfg, key, t)
    THEN map
    ELSE SetRequests(map, key, Append(GetRequests(map, key), t))

AfterIsRateLimited(map, cfg, key, t) ==
    IF isRateLimited(map, cfg, key, t)
    THEN map
    ELSE SetRequests(map, key, Append(ValidRequests(map, key, t, cfg.windowMs), t))

getRemainingRequests(map, cfg, key, t) ==
    Max(0, cfg.maxRequests - Len(ValidRequests(map, key, t, cfg.windowMs)))

getResetTime(map, cfg, key, t) ==
    IF Len(GetRequests(map, key)) = 0
    THEN 0
    ELSE Max(0, cfg.windowMs - (t - SeqMin(GetRequests(map, key))))

\* the Map after cleanup() at instant t
cleanupKeepsNewest(map, cfg, t) ==
    LET kept == { k \in DOMAIN map : Len(ValidRequests(map, k, t, cfg.windowMs)) # 0 }
    IN [k \in kept |-> << map[k][Len(map[k])] >>]

cleanup(map, cfg, t) ==
    LET kept == { k \in DOMAIN map : Len(ValidRequests(map, k, t, cfg.windowMs)) # 0 }
    IN [k \in kept |-> ValidRequests(map, k, t, cfg.windowMs)]

\* the record of accepted checks, kept apart from the Map: an accepted check is
\* remembered while it is less than windowMs old
Recent(log, t, windowMs) == SelectSeq(log, LAMBDA a : a > t - windowMs)

NoCheck == [op |-> "none", lim |-> "none", key |-> <<>>, limited |-> FALSE, val |-> 0]

\* the Map an exported instance keeps its timestamps in: each has its own
InstanceShared(L) == "command"

InstanceOf(L) == L

IsRateLimitedCall(L, key) ==
    LET cfg == Limiter(L)
        limited == isRateLimited(requests[InstanceOf(L)], cfg, key, now)
    IN /\ requests' = [requests EXCEPT
                         ![InstanceOf(L)] = AfterIsRateLimited(@, cfg, key, now)]
       /\ accepted' = IF limited THEN accepted
                      ELSE [accepted EXCEPT ![L][key] = Append(@, now)]
       /\ lastCheck' = [op |-> "isRateLimited", lim |-> L, key |-> key,
                        limited |-> limited, val |-> 0]
       /\ UNCHANGED now

GetRemainingRequestsCall(L, key) ==
    /\ lastCheck' = [op |-> "getRemainingRequests", lim |-> L, key |-> key,
                     limited |-> FALSE,
                     val |-> getRemainingRequests(requests[InstanceOf(L)], Limiter(L),
                                                 key, now)]
    /\ UNCHANGED <<now, requests, accepted>>

GetResetTimeCall(L, key) ==
    /\ lastCheck' = [op |-> "getResetTime", lim |-> L, key |-> key,
                     limited |-> FALSE,
                     val |-> getResetTime(requests[InstanceOf(L)], Limiter(L), key, now)]
    /\ UNCHANGED <<now, requests, accepted>>

CleanupCall(L) ==
    /\ requests' = [requests EXCEPT ![InstanceOf(L)] = cleanup(@, Limiter(L), now)]
    /\ lastCheck' = [NoCheck EXCEPT !.op = "cleanup", !.lim = L]
    /\ UNCHANGED <<now, accepted>>

\* time passes
Tick(d) ==
    /\ now' = now + d
    /\ accepted' = [L \in Limiters |-> [k \in LimiterKeys |->
                      Recent(accepted[L][k], now + d, Limiter(L).windowMs)]]
    /\ UNCHANGED <<requests, lastCheck>>

-----------------------------------------------------------------------------
(* The /api middleware and routes *)

UNKNOWN == <<"u","n","k","n","o","w","n">>

\* c.req.header("cf-connecting-ip") || c.req.header("x-forwarded-for") || "unknown";
\* an absent header is <<>>
ClientIp(cfConnectingIp, xForwardedFor) ==
    IF cfConnectingIp # <<>> THEN cfConnectingIp
    ELSE IF xForwardedFor # <<>> THEN xForwardedFor
    ELSE UNKNOWN

\* the path pattern of the middleware; a path is its sequence of segments
MiddlewareMatchesStatsOnly(path) ==
    Len(path) >= 2 /\ path[1] = "api" /\ path[2] \in {"stats", "leaderboard", "user", "overview"}

MiddlewareMatches(path) == Len(path) >= 1 /\ path[1] = "api"

Digits == <<"0","1","2","3","4","5","6","7","8","9">>

DigitValue(c) == (CHOOSE i \in 1..10 : Digits[i] = c) - 1

IsDigit(c) == \E i \in 1..10 : Digits[i] = c

RECURSIVE LeadingDigits(_, _)
LeadingDigits(str, acc) ==
    IF str # <<>> /\ IsDigit(Head(str))
    THEN LeadingDigits(Tail(str), 10 * acc + DigitValue(Head(str)))
    ELSE acc

\* parseInt of an unsigned decimal text
ParseInt(str) ==
    IF str # <<>> /\ IsDigit(Head(str)) THEN Num(LeadingDigits(str, 0)) ELSE NaN

\* Math.min(x, 100)
MinWith100(x) == IF x = NaN THEN NaN ELSE IF x[1] < 100 THEN x ELSE Num(100)

Periods == { "daily", "weekly", "monthly", "all" }

\* what a route handler does up to its first await: the status and error code
\* it answers with at once (status 0: it awaits the store), and the number of
\* statements it has sent to the store
Answer(status, code, sent) == [status |-> status, code |-> code, sent |-> sent]

RouteHandler(req) ==
    CASE req.path = <<"api", "health">> -> Answer(200, "", 0)
      [] req.path = <<"api", "docs">> -> Answer(200, "", 0)
      [] req.path = <<"api", "overview">> -> Answer(0, "", 2)
      [] req.path = <<"api", "stats">> ->
            IF req.platform \notin Platforms THEN Answer(400, "INVALID_PLATFORM", 0)
            ELSE Answer(0, "", 1)
      [] req.path = <<"api", "leaderboard">> ->
            IF req.platform \notin Platforms THEN Answer(400, "INVALID_PLATFORM", 0)
            ELSE IF (IF req.period = "" THEN "all" ELSE req.period) \notin Periods
            THEN Answer(400, "INVALID_PERIOD", 0)
            ELSE IF validateDatabaseParams(req.platform,
                       MinWith100(ParseInt(IF req.limit = <<>> THEN <<"1","0">> ELSE req.limit)))
            THEN Answer(0, "", 1)
            ELSE Answer(500, "INTERNAL_ERROR", 0)
      [] req.path = <<"api", "user">> ->
            IF req.platform \notin Platforms THEN Answer(400, "INVALID_PLATFORM", 0)
            ELSE IF Trim(req.userId) = <<>> THEN Answer(400, "MISSING_USER_ID", 0)
            ELSE Answer(0, "", 1)
      [] req.path = <<"dashboard">> -> Answer(200, "", 0)
      [] OTHER -> Answer(404, "", 0)

\* a GET request: path, route parameters and the limit query parameter
Get(path, platform, period, userId, limit) ==
    [path |-> path, platform |-> platform, period |-> period, userId |-> userId,
     limit |-> limit]

NoRequest == Get(<<>>, <<>>, "", <<>>, <<>>)

\* http: the request, the key it was limited by, the number of requests of that
\* key accepted less than windowMs before it, whether a route handler ran, the
\* statements sent, and the response
NoHttp ==
    [pc |-> "idle", req |-> NoRequest, key |-> <<>>, before |-> 0, handler |-> FALSE,
     sent |-> 0, status |-> 0, code |-> ""]

\* a request arrives: the middleware, then the route handler up to its first await
ApiRequest(req, cfConnectingIp, xForwardedFor) ==
    LET key == ClientIp(cfConnectingIp, xForwardedFor)
        checked == MiddlewareMatches(req.path)
        limited == checked /\ isRateLimited(requests["api"], apiRateLimiter, key, now)
        answer == RouteHandler(req)
    IN /\ http.pc = "idle"
       /\ requests' = IF checked
                      THEN [requests EXCEPT
                              !["api"] = AfterIsRateLimited(@, apiRateLimiter, key, now)]
                      ELSE requests
       /\ accepted' = IF checked /\ ~limited
                      THEN [accepted EXCEPT !["api"][key] = Append(@, now)]
                      ELSE accepted
       /\ http' = IF limited
                  THEN [NoHttp EXCEPT !.pc = "responded", !.req = req, !.key = key,
                                      !.before = Len(accepted["api"][key]),
                                      !.status = 429, !.code = "RATE_LIMITED"]
                  ELSE [pc |-> IF answer.status = 0 THEN "handler" ELSE "responded",
                        req |-> req, key |-> key,
                        before |-> Len(accepted["api"][key]),
                        handler |-> answer.status # 404,
                        sent |-> answer.sent,
                        status |-> answer.status, code |-> answer.code]
       /\ UNCHANGED <<now, lastCheck, trackVars, reader, hookVars, restVars, task>>

\* the store answered every statement of the handler
ApiHandlerReturns ==
    /\ http.pc = "handler"
    /\ http' = [http EXCEPT !.pc = "responded", !.status = 200]
    /\ UNCHANGED <<limiterVars, trackVars, reader, hookVars, restVars, task>>

\* a statement of the handler failed: the handler's catch
ApiHandlerFails ==
    /\ http.pc = "handler"
    /\ http' = [http EXCEPT !.pc = "responded", !.status = 500, !.code = "INTERNAL_ERROR"]
    /\ UNCHANGED <<limiterVars, trackVars, reader, hookVars, restVars, task>>

\* the response is delivered
ApiResponded ==
    /\ http.pc = "responded"
    /\ http' = NoHttp
    /\ UNCHANGED <<limiterVars, trackVars, reader, hookVars, restVars, task>>

\* time passes between requests
ApiTick(d) ==
    /\ http.pc = "idle"
    /\ Tick(d)
    /\ UNCHANGED <<trackVars, reader, http, hookVars, restVars, task>>

-----------------------------------------------------------------------------
(* sanitizeInput *)

\* JS values handed to the helpers: a string, undefined, a number
Str(s) == [type |-> "string", value |-> s]
Undefined == [type |-> "undefined", value |-> <<>>]
Null == [type |-> "null", value |-> <<>>]
NumberValue == [type |-> "number", value |-> <<>>]

\* .replace(/[<>]/g, '')
RemoveAngleOpeningOnly(s) == SelectSeq(s, LAMBDA c : c # "<")

RemoveAngle(s) == SelectSeq(s, LAMBDA c : c \notin {"<", ">"})

JAVASCRIPT == <<"j","a","v","a","s","c","r","i","p","t",":">>

\* .replace(/javascript:/gi, ''): one pass from the left, the text left of a
\* removed match is not looked at again
RECURSIVE RemoveJavascript(_)
RemoveJavascript(s) ==
    IF s = <<>> THEN <<>>
    ELSE IF StartsWith(ToLowerCase(s), JAVASCRIPT)
    THEN RemoveJavascript(SubSeq(s, Len(JAVASCRIPT) + 1, Len(s)))
    ELSE <<Head(s)>> \o RemoveJavascript(Tail(s))

\* \w
WordChar(c) ==
    \/ \E i \in 1..Len(UpperSeq) : c = UpperSeq[i] \/ c = LowerSeq[i]
    \/ IsDigit(c)
    \/ c = "_"

\* the length of the longest prefix of word characters
RECURSIVE WordRun(_)
WordRun(s) == IF s # <<>> /\ WordChar(Head(s)) THEN 1 + WordRun(Tail(s)) ELSE 0

\* the length of the match of /on\w+=/i at the start of s, 0 if there is none
\* (\w+ is greedy and = is no word character, so only the longest run can match)
OnHandlerAt(s) ==
    IF StartsWith(ToLowerCase(s), <<"o","n">>)
    THEN LET run == WordRun(SubSeq(s, 3, Len(s)))
         IN IF run >= 1 /\ Len(s) >= run + 3 /\ s[run + 3] = "=" THEN run + 3 ELSE 0
    ELSE 0

\* .replace(/on\w+=/gi, '')
RECURSIVE RemoveOnHandlers(_)
RemoveOnHandlers(s) ==
    IF s = <<>> THEN <<>>
    ELSE IF OnHandlerAt(s) > 0
    THEN RemoveOnHandlers(SubSeq(s, OnHandlerAt(s) + 1, Len(s)))
    ELSE <<Head(s)>> \o RemoveOnHandlers(Tail(s))

\* maxLength when the caller gives none
DefaultMaxLength == 1000

\* sanitizeInput(input, maxLength), maxLength a length (0, 1, 2, ...)
sanitizeInput(input, maxLength) ==
    IF input.type # "string" \/ input.value = <<>> THEN Null
    ELSE LET sanitized == Trim(RemoveOnHandlers(RemoveJavascript(RemoveAngle(input.value))))
         IN Str(IF Len(sanitized) > maxLength
                THEN SubSeq(sanitized, 1, maxLength)
                ELSE sanitized)

\* util: the helper, whether it has returned, its arguments and its result
NoUtil ==
    [fn |-> "none", st |-> "idle", input |-> Undefined, maxLength |-> 0, out |-> Null]

Called(fn, input, maxLength) ==
    [NoUtil EXCEPT !.fn = fn, !.st = "called", !.input = input, !.maxLength = maxLength]

\* the call runs to its return
SanitizeInputCall ==
    /\ util.fn = "sanitizeInput"
    /\ util.st = "called"
    /\ util' = [util EXCEPT !.st = "returned",
                            !.out = sanitizeInput(util.input, util.maxLength)]
    /\ UNCHANGED <<trackVars, limiterVars, reader, http, hookVars, overview, task>>

-----------------------------------------------------------------------------
(* detectAbuse *)
\* A text is its sequence of UTF-16 code units.  "U+2600" is the one unit of a
\* symbol in the range 2600-26FF; "U+D83D", "U+DE00" are the two units of the
\* character 1F600.

\* what . does not match
LineTerminators == { "\n", "\r", "U+2028", "U+2029" }

\* /(.)\1{10,}/ matches at unit i: the regular expression has no u flag, so
\* . takes one code unit
FloodAt(text, i) ==
    /\ i + 10 <= Len(text)
    /\ text[i] \notin LineTerminators
    /\ \A j \in i..(i + 10) : text[j] = text[i]

\* (text.match(/[A-Z]/g) || []).length
CapsCount(text) == Len(SelectSeq(text, LAMBDA c : \E i \in 1..Len(UpperSeq) : c = UpperSeq[i]))

\* pattern.test(text) for a pattern of literal words joined by .* (one word: a
\* plain literal), case-insensitive; .* does not cross a line terminator
RECURSIVE WordsFrom(_, _, _)
WordsFrom(text, words, from) ==
    IF words = <<>> THEN TRUE
    ELSE \E i \in from..(Len(text) - Len(Head(words)) + 1) :
            /\ SubSeq(ToLowerCase(text), i, i + Len(Head(words)) - 1) = Head(words)
            /\ \A j \in from..(i - 1) : text[j] \notin LineTerminators
            /\ WordsFrom(text, Tail(words), i + Len(Head(words)))

TestPattern(text, words) ==
    \E i \in 1..(Len(text) - Len(Head(words)) + 1) :
        /\ SubSeq(ToLowerCase(text), i, i + Len(Head(words)) - 1) = Head(words)
        /\ WordsFrom(text, Tail(words), i + Len(Head(words)))

suspiciousPatterns ==
    { << <<"b","i","t",".","l","y">> >>,
      << <<"t","i","n","y","u","r","l">> >>,
      << <<"t","e","l","e","g","r","a","m",".","m","e","/","j","o","i","n","c","h","a","t">> >>,
      << <<"d","i","s","c","o","r","d",".","g","g">> >>,
      << <<"f","r","e","e">>, <<"c","r","y","p","t","o">> >>,
      << <<"c","l","i","c","k">>, <<"h","e","r","e">>, <<"n","o","w">> >> }

\* the matches of the emoji pattern: it has the u flag, so a surrogate pair is
\* one character
RECURSIVE EmojiCount(_)
EmojiCount(text) ==
    IF text = <<>> THEN 0
    ELSE IF Len(text) >= 2 /\ text[1] = "U+D83D" /\ text[2] = "U+DE00"
    THEN 1 + EmojiCount(SubSeq(text, 3, Len(text)))
    ELSE (IF Head(text) = "U+2600" THEN 1 ELSE 0) + EmojiCount(Tail(text))

AbuseResult(isFlood, caps, suspicious, emoji) ==
    LET score == (IF isFlood THEN 30 ELSE 0) + (IF caps THEN 20 ELSE 0)
                 + (IF suspicious THEN 40 ELSE 0) + (IF emoji THEN 15 ELSE 0)
    IN [isSpam |-> score >= 50, isFlood |-> isFlood,
        containsSuspiciousContent |-> suspicious, score |-> score]

\* detectAbuse(text)
detectAbuse(text) ==
    IF text.type # "string" \/ text.value = <<>>
    THEN [isSpam |-> FALSE, isFlood |-> FALSE, containsSuspiciousContent |-> FALSE,
          score |-> 0]
    ELSE LET t == text.value
         IN AbuseResult(\E i \in 1..Len(t) : FloodAt(t, i),
                        10 * CapsCount(t) > 7 * Len(t) /\ Len(t) > 10,
                        \E pattern \in suspiciousPatterns : TestPattern(t, pattern),
                        10 * EmojiCount(t) > 3 * Len(t) /\ Len(t) > 5)

\* the call runs to its return
DetectAbuseCall ==
    /\ util.fn = "detectAbuse"
    /\ util.st = "called"
    /\ util' = [util EXCEPT !.st = "returned", !.out = detectAbuse(util.input)]
    /\ UNCHANGED <<trackVars, limiterVars, reader, http, hookVars, overview, task>>

-----------------------------------------------------------------------------
(* GET /api/overview *)

\* the object getPlatformStats returns, from the results of its four statements
PlatformStats(res) ==
    [totalUsers |-> res[1], totalMessages |-> res[2],
     activeToday |-> res[3], activeThisWeek |-> res[4]]

NoStats == PlatformStats(<<0, 0, 0, 0>>)

\* totalStats of the handler
TotalStatsTelegramTwice(telegramStats, discordStats) ==
    [totalUsers |-> telegramStats.totalUsers + discordStats.totalUsers,
     totalMessages |-> telegramStats.totalMessages + telegramStats.totalMessages,
     activeToday |-> telegramStats.activeToday + discordStats.activeToday,
     activeThisWeek |-> telegramStats.activeThisWeek + discordStats.activeThisWeek]

TotalStats(telegramStats, discordStats) ==
    [totalUsers |-> telegramStats.totalUsers + discordStats.totalUsers,
     totalMessages |-> telegramStats.totalMessages + discordStats.totalMessages,
     activeToday |-> telegramStats.activeToday + discordStats.activeToday,
     activeThisWeek |-> telegramStats.activeThisWeek + discordStats.activeThisWeek]

\* overview: the two getPlatformStats calls of Promise.all, and the response
NoOverview ==
    [pc |-> "idle", telegram |-> NoRead, discord |-> NoRead, status |-> 0,
     total |-> NoStats, platforms |-> [telegram |-> NoStats, discord |-> NoStats]]

\* the route handler starts both calls; each validates its literal platform
\* and sends its first statement
OverviewRequest ==
    /\ overview.pc = "idle"
    /\ validateDatabaseParams(TELEGRAM, Num(10))
    /\ validateDatabaseParams(DISCORD, Num(10))
    /\ overview' = [NoOverview EXCEPT
                      !.pc = "reading",
                      !.telegram = Reading("platformStats", TELEGRAM, <<>>, 0, AnyDay, today),
                      !.discord = Reading("platformStats", DISCORD, <<>>, 0, AnyDay, today)]
    /\ UNCHANGED <<trackVars, limiterVars, reader, http, hookVars, util, task>>

\* the store answers the statement one of the two calls awaits; the call sends
\* its next statement, or returns after its last; once both have returned the
\* handler adds the two results up and responds
OverviewReadStep(p) ==
    /\ overview.pc = "reading"
    /\ overview[p].st = "query"
    /\ \E result \in StatementResults(overview[p], Len(overview[p].res) + 1,
                                      chat_counter, users) :
          LET last == Len(overview[p].res) + 1 = Statements("platformStats")
              call == [overview[p] EXCEPT
                         !.res = Append(@, result),
                         !.st = IF last THEN "returned" ELSE "query",
                         !.stmts = IF last THEN @ ELSE @ + 1]
              after == [overview EXCEPT ![p] = call]
          IN overview' =
               IF after.telegram.st = "returned" /\ after.discord.st = "returned"
               THEN [after EXCEPT
                       !.pc = "responded",
                       !.status = 200,
                       !.total = TotalStats(PlatformStats(after.telegram.res),
                                            PlatformStats(after.discord.res)),
                       !.platforms = [telegram |-> PlatformStats(after.telegram.res),
                                      discord |-> PlatformStats(after.discord.res)]]
               ELSE after
    /\ UNCHANGED <<trackVars, limiterVars, reader, http, hookVars, util, task>>

\* a statement of one call fails: the call rethrows, Promise.all rejects and
\* the handler's catch answers 500
OverviewReadFails(p) ==
    /\ overview.pc = "reading"
    /\ overview[p].st = "query"
    /\ overview' = [overview EXCEPT ![p].st = "threw", !.pc = "responded", !.status = 500]
    /\ UNCHANGED <<trackVars, limiterVars, reader, http, hookVars, util, task>>

\* the response is delivered
OverviewResponded ==
    /\ overview.pc = "responded"
    /\ overview' = NoOverview
    /\ UNCHANGED <<trackVars, limiterVars, reader, http, hookVars, util, task>>

-----------------------------------------------------------------------------
(* The webhook adapters: handleTelegramWebhook and POST /discord/webhook *)

\* the fields of a Telegram message that mark a service message
ServiceFields ==
    { "new_chat_member", "new_chat_members", "left_chat_member", "new_chat_title",
      "new_chat_photo", "delete_chat_photo", "group_chat_created",
      "supergroup_chat_created", "channel_chat_created",
      "message_auto_delete_timer_changed", "pinned_message" }

IsServiceMessageJoinLeaveOnly(message) ==
    message.service \cap {"new_chat_member", "new_chat_members", "left_chat_member"} # {}

IsServiceMessage(message) == message.service \cap ServiceFields # {}

isSummaryCommand(text) == StartsWith(text, <<"/","s","u","m","m","a","r","y">>)
isPingCommand(text) == StartsWith(text, <<"/","p","i","n","g">>)
isHelpCommand(text) == StartsWith(text, <<"/","h","e","l","p">>)
isStatsCommand(text) == StartsWith(text, <<"/","s","t","a","t","s">>) \/ StartsWith(text, <<"/","l","e","a","d","e","r","b","o","a","r","d">>)
isMyStatsCommand(text) == StartsWith(text, <<"/","m","y","s","t","a","t","s">>) \/ StartsWith(text, <<"/","m","e">>)
isLeaderboardCommand(text) ==
    \/ StartsWith(text, <<"/","l","e","a","d","e","r","b","o","a","r","d">>)
    \/ StartsWith(text, <<"/","t","o","p">>)
    \/ StartsWith(text, <<"/","r","a","n","k","i","n","g">>)
isDailyCommand(text) == StartsWith(text, <<"/","d","a","i","l","y">>)
isWeeklyCommand(text) == StartsWith(text, <<"/","w","e","e","k","l","y">>)
isMonthlyCommand(text) == StartsWith(text, <<"/","m","o","n","t","h","l","y">>)

\* the branches of the command chain, in the order they are tested
CommandChain ==
    << "processSummaryCommand", "processPingCommand", "processHelpCommand",
       "processStatsCommand", "processMyStatsCommand", "processLeaderboardCommand",
       "processDailyCommand", "processWeeklyCommand", "processMonthlyCommand" >>

BranchTaken(n, text) ==
    CASE n = 1 -> isSummaryCommand(text)
      [] n = 2 -> isPingCommand(text)
      [] n = 3 -> isHelpCommand(text)
      [] n = 4 -> isStatsCommand(text)
      [] n = 5 -> isMyStatsCommand(text)
      [] n = 6 -> isLeaderboardCommand(text)
      [] n = 7 -> isDailyCommand(text)
      [] n = 8 -> isWeeklyCommand(text)
      [] n = 9 -> isMonthlyCommand(text)

\* the handlers passed to waitUntil for a message text; an absent text is <<>>
DispatchEveryMatch(text, botToken) ==
    IF ~botToken THEN <<>>
    ELSE LET hits == SelectSeq([n \in 1..Len(CommandChain) |-> n],
                               LAMBDA n : BranchTaken(n, text))
         IN [k \in 1..Len(hits) |-> CommandChain[hits[k]]]

Dispatch(text, botToken) ==
    LET hits == { n \in 1..Len(CommandChain) : BranchTaken(n, text) }
    IN IF hits = {} \/ ~botToken
       THEN <<>>
       ELSE << CommandChain[CHOOSE n \in hits : \A m \in hits : n <= m] >>

\* Number.prototype.toString of a non-negative integer
RECURSIVE NumberToString(_)
NumberToString(n) ==
    IF n < 10 THEN << Digits[n + 1] >>
    ELSE Append(NumberToString(n \div 10), Digits[(n % 10) + 1])

\* message.from; absent fields are <<>>
Sender(id, is_bot, first_name, last_name, username) ==
    [present |-> TRUE, id |-> id, is_bot |-> is_bot, first_name |-> first_name,
     last_name |-> last_name, username |-> username]

NoSender == [Sender(0, FALSE, <<>>, <<>>, <<>>) EXCEPT !.present = FALSE]

\* update.message
Message(message_id, service, text, from) ==
    [present |-> TRUE, message_id |-> message_id, chat |-> TRUE, service |-> service,
     text |-> text, from |-> from]

NoMessage == [Message(0, {}, <<>>, NoSender) EXCEPT !.present = FALSE, !.chat = FALSE]

\* first name and last name, else the username, else "Unknown User"
DisplayName(from) ==
    IF from.first_name # <<>>
    THEN from.first_name \o (IF from.last_name # <<>> THEN <<" ">> \o from.last_name ELSE <<>>)
    ELSE IF from.username # <<>> THEN from.username ELSE <<"U","n","k","n","o","w","n"," ","U","s","e","r">>

\* recordTelegramChannelMessage: the check it throws on, and the row it inserts
ValidChannelMessage(message) == message.present /\ message.message_id # 0 /\ message.chat

ChannelRow(message) ==
    [message_id |-> NumberToString(message.message_id),
     sender_id |-> IF message.from.present THEN NumberToString(message.from.id) ELSE <<>>,
     sender_name |-> IF message.from.present THEN DisplayName(message.from)
                     ELSE <<"U","n","k","n","o","w","n"," ","U","s","e","r">>,
     message_text |-> message.text]

\* the body of a Discord request; absent fields are <<>>
DiscordPayload(username, user_id, content) ==
    [present |-> TRUE, username |-> username, user_id |-> user_id, content |-> content]

NoPayload == [DiscordPayload(<<>>, <<>>, <<>>) EXCEPT !.present = FALSE]

\* the limiter a command handler asks before anything else
HandlerLimiter(handler) ==
    CASE handler = "processSummaryCommand" -> "summary"
      [] handler \in {"processPingCommand", "processHelpCommand",
                      "processMyStatsCommand"} -> "none"
      [] OTHER -> "command"

\* what a command handler awaits, in order, when nothing fails
Script(handler) ==
    CASE handler = "processSummaryCommand" ->
            <<"sendTelegramChatAction", "fetchRecentMessages", "generateChatSummary",
              "sendTelegramMessage">>
      [] handler \in {"processPingCommand", "processHelpCommand"} ->
            <<"sendTelegramChatAction", "sendTelegramMessage">>
      [] handler = "processMyStatsCommand" ->
            <<"sendTelegramChatAction", "getUserStats", "sendTelegramMessage">>
      [] handler = "processMonthlyCommand" ->
            <<"sendTelegramChatAction", "getLeaderboard", "sendTelegramMessage">>
      [] OTHER ->
            <<"sendTelegramChatAction", "getLeaderboard", "getPlatformStats",
              "sendTelegramMessage">>

\* processStatsCommand: message.text?.toLowerCase().split(" ")[1] || "all",
\* and the leaderboard its switch selects
StatsPeriod(text) ==
    LET lower == ToLowerCase(text)
        spaces == { i \in 1..Len(lower) : lower[i] = " " }
        first == IF spaces = {} THEN Len(lower) + 1
                 ELSE CHOOSE i \in spaces : \A j \in spaces : i <= j
        later == { i \in spaces : i > first }
        second == IF later = {} THEN Len(lower) + 1
                  ELSE CHOOSE i \in later : \A j \in later : i <= j
        arg == SubSeq(lower, first + 1, second - 1)
    IN IF arg = <<>> THEN <<"a","l","l">> ELSE arg

StatsType(text) ==
    CASE StatsPeriod(text) \in { <<"d","a","i","l","y">>, <<"t","o","d","a","y">> } -> "daily"
      [] StatsPeriod(text) \in { <<"w","e","e","k","l","y">>, <<"w","e","e","k">> } -> "weekly"
      [] StatsPeriod(text) \in { <<"m","o","n","t","h","l","y">>, <<"m","o","n","t","h">> }
            -> "monthly"
      [] OTHER -> "all-time"

\* the leaderboard a handler computes for a message text
LeaderboardOf(handler, text) ==
    CASE handler = "processStatsCommand" -> StatsType(text)
      [] handler = "processLeaderboardCommand" -> "all-time"
      [] handler = "processDailyCommand" -> "daily"
      [] handler = "processWeeklyCommand" -> "weekly"
      [] handler = "processMonthlyCommand" -> "monthly"
      [] OTHER -> "none"

\* message.from?.id.toString() || "unknown"
TaskUserId(message) ==
    IF message.from.present THEN NumberToString(message.from.id)
    ELSE <<"u","n","k","n","o","w","n">>

\* task: the handler, its promise, what it still awaits, whether it is in its
\* catch block, and the chat messages it has sent
NoTask == [handler |-> "none", st |-> "idle", todo |-> <<>>, caught |-> FALSE, replies |-> 0]

\* the handler up to its first await: a limited caller and /mystats without a
\* sender are answered with one message
StartedTypingFirst(handler, message, limited) ==
    [NoTask EXCEPT
       !.handler = handler,
       !.st = "running",
       !.todo = IF handler = "processMyStatsCommand" /\ ~message.from.present
                THEN <<"sendTelegramMessage">>
                ELSE IF limited THEN <<"sendTelegramChatAction", "sendTelegramMessage">>
                ELSE Script(handler)]

Started(handler, message, limited) ==
    [NoTask EXCEPT
       !.handler = handler,
       !.st = "running",
       !.todo = IF limited \/ (handler = "processMyStatsCommand" /\ ~message.from.present)
                THEN <<"sendTelegramMessage">>
                ELSE Script(handler)]

\* c.executionCtx.waitUntil(promise): what the adapter sees of the promise
AwaitPromise(t) == t.st

WaitUntil(t) == "pending"

\* the call awaited returns; fetchRecentMessages with no text row leads to the
\* "No messages found" reply
TaskAwaitReturns ==
    /\ task.st = "running"
    /\ LET op == Head(task.todo)
           found == \E i \in 1..Len(telegram_channel_messages) :
                       telegram_channel_messages[i].message_text # <<>>
           rest == IF op = "fetchRecentMessages" /\ ~found
                   THEN <<"sendTelegramMessage">>
                   ELSE Tail(task.todo)
       IN task' = [task EXCEPT
                     !.todo = rest,
                     !.replies = IF op = "sendTelegramMessage" THEN @ + 1 ELSE @,
                     !.st = IF rest = <<>> THEN "resolved" ELSE "running"]
    /\ UNCHANGED <<trackVars, limiterVars, reader, http, hookVars, restVars>>

\* the call awaited throws (generateChatSummary catches its own errors): the
\* handler's catch sends the apology; a throw inside the catch rejects the promise
TaskAwaitThrows ==
    /\ task.st = "running"
    /\ Head(task.todo) # "generateChatSummary"
    /\ task' = IF ~task.caught
               THEN [task EXCEPT !.caught = TRUE, !.todo = <<"sendTelegramMessage">>]
               ELSE [task EXCEPT !.st = "rejected", !.todo = <<>>]
    /\ UNCHANGED <<trackVars, limiterVars, reader, http, hookVars, restVars>>

\* the runtime has taken the settled promise
TaskSettled ==
    /\ task.st \in {"resolved", "rejected"}
    /\ task' = NoTask
    /\ UNCHANGED <<trackVars, limiterVars, reader, http, hookVars, restVars>>

\* hook: the adapter, its position, the message or payload and the bot token of the
\* request, the command handlers passed to waitUntil, the number of
\* trackMessage calls made, the number of channel-message statements sent, and
\* the response
NoHook ==
    [kind |-> "none", pc |-> "idle", message |-> NoMessage, payload |-> NoPayload,
     botToken |-> FALSE,
     dispatched |-> <<>>, tracks |-> 0, recorded |-> 0, status |-> 0, success |-> FALSE]

Responded(h, status, success) ==
    [h EXCEPT !.pc = "responded", !.status = status, !.success = success]

\* POST /telegram/webhook, up to the await of trackMessage
TelegramWebhook(message, botToken) ==
    LET h == [NoHook EXCEPT !.kind = "telegram", !.message = message,
                            !.botToken = botToken]
        ignoredEarly == ~message.present \/ IsServiceMessage(message)
        d == [h EXCEPT !.dispatched = Dispatch(message.text, botToken)]
        launched == ~ignoredEarly /\ d.dispatched # <<>>
        L == IF launched THEN HandlerLimiter(d.dispatched[1]) ELSE "none"
        limited == L # "none" /\ isRateLimited(requests[InstanceOf(L)], Limiter(L),
                                               TaskUserId(message), now)
    IN /\ hook.pc = "idle"
       /\ calls[1].st = "idle"
       /\ received' = received + 1
       /\ requests' = IF L # "none"
                      THEN [requests EXCEPT
                              ![InstanceOf(L)] = AfterIsRateLimited(@, Limiter(L),
                                                                    TaskUserId(message), now)]
                      ELSE requests
       /\ accepted' = IF L # "none" /\ ~limited
                      THEN [accepted EXCEPT ![L][TaskUserId(message)] = Append(@, now)]
                      ELSE accepted
       /\ task' = IF launched THEN Started(d.dispatched[1], message, limited) ELSE task
       /\ IF ignoredEarly
          THEN /\ hook' = Responded(h, 200, TRUE)
               /\ UNCHANGED <<calls, started, inserts>>
          ELSE IF ~message.from.present
          THEN /\ hook' = Responded(d, 200, FALSE)
               /\ UNCHANGED <<calls, started, inserts>>
          ELSE IF message.from.is_bot
          THEN /\ hook' = Responded(d, 200, TRUE)
               /\ UNCHANGED <<calls, started, inserts>>
          ELSE IF ~ValidChannelMessage(message)
          THEN /\ hook' = Responded(d, 500, FALSE)
               /\ UNCHANGED <<calls, started, inserts>>
          ELSE /\ inserts' = Append(inserts, ChannelRow(message))
               /\ calls' = [calls EXCEPT
                              ![1] = BegunCall(TELEGRAM, NumberToString(message.from.id),
                                               DisplayName(message.from),
                                               Num(Len(message.text)), today)]
               /\ started' = started + 1
               /\ hook' = [d EXCEPT !.pc = "track", !.tracks = 1, !.recorded = 1]
       /\ UNCHANGED <<today, users, chat_counter, tracked, telegram_channel_messages>>
       /\ UNCHANGED <<now, lastCheck, reader, http, restVars>>

\* POST /discord/webhook, up to the await of trackMessage
DiscordWebhook(payload) ==
    LET h == [NoHook EXCEPT !.kind = "discord", !.payload = payload]
    IN /\ hook.pc = "idle"
       /\ calls[1].st = "idle"
       /\ received' = received + 1
       /\ IF ~payload.present \/ payload.username = <<>> \/ payload.user_id = <<>>
          THEN /\ hook' = Responded(h, 200, FALSE)
               /\ UNCHANGED <<calls, started>>
          ELSE /\ calls' = [calls EXCEPT
                              ![1] = BegunCall(DISCORD, payload.user_id, payload.username,
                                               Num(Len(payload.content)), today)]
               /\ started' = started + 1
               /\ hook' = [h EXCEPT !.pc = "track", !.tracks = 1]
       /\ UNCHANGED <<today, users, chat_counter, tracked, telegram_channel_messages,
                      inserts>>
       /\ UNCHANGED <<limiterVars, reader, http, restVars, task>>

\* trackMessage has returned or thrown: the adapter answers
WebhookReturns ==
    /\ hook.pc = "track"
    /\ calls[1].st \in {"done", "failed", "rejected"}
    /\ hook' = IF calls[1].st = "done" /\ WaitUntil(task) # "rejected"
               THEN Responded(hook, 200, TRUE)
               ELSE Responded(hook, 500, FALSE)
    /\ calls' = [calls EXCEPT ![1] = IdleCall]
    /\ UNCHANGED <<today, users, chat_counter, started, tracked, received,
                   telegram_channel_messages, inserts>>
    /\ UNCHANGED <<limiterVars, reader, http, restVars, task>>

\* the response is delivered
WebhookResponded ==
    /\ hook.pc = "responded"
    /\ hook' = NoHook
    /\ UNCHANGED <<received, telegram_channel_messages, inserts>>
    /\ UNCHANGED <<trackVars, limiterVars, reader, http, restVars, task>>

\* the store executes a channel-message statement that nothing awaits
ChannelInsertLands ==
    /\ inserts # <<>>
    /\ telegram_channel_messages' = Append(telegram_channel_messages, Head(inserts))
    /\ inserts' = Tail(inserts)
    /\ UNCHANGED <<hook, received>>
    /\ UNCHANGED <<trackVars, limiterVars, reader, http, restVars, task>>

\* a channel-message statement fails, or the request ends before it ran
ChannelInsertFails ==
    /\ inserts # <<>>
    /\ inserts' = Tail(inserts)
    /\ UNCHANGED <<hook, received, telegram_channel_messages>>
    /\ UNCHANGED <<trackVars, limiterVars, reader, http, restVars, task>>

-----------------------------------------------------------------------------

NextTrack ==
    \/ /\ started < MaxCalls
       /\ \E i \in Slots, p \in PlatformInputs, u \in UserIdInputs,
             n \in NameInputs, l \in LengthInputs : TrackStart(i, p, u, n, l)
    \/ \E i \in Slots : EnsureUser(i)
    \/ \E i \in Slots : EnsureUserFails(i)
    \/ \E i \in Slots : UpdateCounter(i)
    \/ \E i \in Slots : UpdateCounterFails(i)
    \/ \E i \in Slots : TrackReturn(i)
    \/ \E d \in {31} : AdvanceDay(d)

vars == <<trackVars, limiterVars, reader, http, hookVars, restVars, task>>

InitStore ==
    /\ today = 30
    /\ users = <<>>
    /\ chat_counter = <<>>
    /\ calls = [i \in Slots |-> IdleCall]
    /\ started = 0
    /\ tracked = <<>>

InitLimiters ==
    /\ now = 0
    /\ requests = [L \in Limiters |-> <<>>]
    /\ accepted = [L \in Limiters |-> [k \in LimiterKeys |-> <<>>]]
    /\ lastCheck = NoCheck

InitHook ==
    /\ hook = NoHook
    /\ received = 0
    /\ telegram_channel_messages = <<>>
    /\ inserts = <<>>

InitRest == overview = NoOverview /\ util = NoUtil /\ task = NoTask

Init ==
    InitStore /\ InitLimiters /\ reader = NoRead /\ http = NoHttp /\ InitHook /\ InitRest

Spec == Init /\ [][NextTrack /\ UNCHANGED otherThanTrack]_vars

\* The limiter instances on their own.  One instance is exercised in a run, and
\* the clock advances by half its window, over MaxWindows windows.
Exercised == {"command", "summary"}

CallerKeys == { <<"7">>, <<"8">> }

NextLimiter ==
    /\ UNCHANGED otherThanLimiter
    /\ \/ \E L \in Exercised, k \in CallerKeys :
             /\ lastCheck.lim \in {"none", L}
             /\ IsRateLimitedCall(L, k)
       \/ \E L \in Exercised, k \in CallerKeys :
             /\ lastCheck.lim \in {"none", L}
             /\ GetRemainingRequestsCall(L, k)
       \/ \E L \in Exercised, k \in CallerKeys :
             /\ lastCheck.lim \in {"none", L}
             /\ GetResetTimeCall(L, k)
       \/ \E L \in Exercised :
             /\ lastCheck.lim \in {"none", L}
             /\ CleanupCall(L)
       \/ \E L \in Exercised :
             /\ lastCheck.lim = L
             /\ now + Limiter(L).windowMs \div 2 <= MaxWindows * Limiter(L).windowMs
             /\ Tick(Limiter(L).windowMs \div 2)

SpecLimiter == Init /\ [][NextLimiter]_vars

\* The three instances together, called for one key, with the clock advancing
\* once by the window of the command limiter.
NextInstances ==
    /\ UNCHANGED otherThanLimiter
    /\ \/ \E L \in Limiters : IsRateLimitedCall(L, <<"7">>)
       \/ \E L \in Limiters : GetRemainingRequestsCall(L, <<"7">>)
       \/ \E L \in Limiters : GetResetTimeCall(L, <<"7">>)
       \/ \E L \in Limiters : CleanupCall(L)
       \/ /\ now = 0
          /\ Tick(commandRateLimiter.windowMs)

SpecInstances == Init /\ [][NextInstances]_vars

\* The statistics engine over a store that trackMessage fills meanwhile.
StatsPlatformInputs == { TELEGRAM, <<"D","i","s","c","o","r","d">>, <<"x","y","z">>, <<>> }

StatsUserInputs == { <<"7">>, <<"8">>, <<" ">> }

LimitInputs == { Num(1), Num(2), Num(0), Num(1001), Half(3) }

NextStats ==
    \/ /\ reader.st = "idle"
       /\ \/ /\ started < MaxStatsCalls
             /\ \E p \in StatsPlatformInputs, u \in StatsUserInputs,
                   n \in { <<"A","n","n">>, <<" ">> },
                   l \in { Num(0), Num(3), Num(-1), Half(3) } : TrackStart(1, p, u, n, l)
          \/ EnsureUser(1)
          \/ EnsureUserFails(1)
          \/ UpdateCounter(1)
          \/ UpdateCounterFails(1)
          \/ TrackReturn(1)
          \/ \E d \in Days : AdvanceDay(d)
    \/ /\ calls[1].st = "idle"
       /\ \/ \E fn \in Leaderboards, p \in StatsPlatformInputs, l \in LimitInputs :
                LeaderboardCall(fn, p, 0, l)
          \/ \E p \in StatsPlatformInputs, l \in LimitInputs :
                LeaderboardCall("daily", p, 30, l)
          \/ \E p \in StatsPlatformInputs : PlatformStatsCall(p)
          \/ \E p \in StatsPlatformInputs, u \in StatsUserInputs : UserStatsCall(p, u)
    \/ ReadStep
    \/ ReadFails
    \/ ReadReturn

SpecStats == Init /\ [][NextStats]_vars

\* sanitizeInput on every text of at most MaxBlocks of these pieces, and on
\* values that are no strings, with every maxLength up to MaxLength and the default.
SanitizeBlocks ==
    { <<"<">>, <<">">>, <<"=">>, <<" ">>, <<"a">>, <<"o","n">>, <<"O","N">>,
      <<"j","a","v","a">>, <<"s","c","r","i","p","t",":">>,
      <<"J","a","v","a","S","c","r","i","p","t",":">> }

RECURSIVE Texts(_, _)
Texts(blocks, n) ==
    IF n = 0 THEN { <<>> }
    ELSE LET shorter == Texts(blocks, n - 1)
         IN shorter \cup { b \o t : b \in blocks, t \in shorter }

SanitizeInputs ==
    { Str(t) : t \in Texts(SanitizeBlocks, MaxBlocks) } \cup { Undefined, NumberValue }

InitSanitize ==
    /\ InitStore /\ InitLimiters /\ reader = NoRead /\ http = NoHttp /\ InitHook
    /\ overview = NoOverview
    /\ task = NoTask
    /\ util \in { Called("sanitizeInput", input, maxLength) :
                    input \in SanitizeInputs,
                    maxLength \in 0..MaxLength \cup {DefaultMaxLength} }

NextSanitize == SanitizeInputCall

SpecSanitize == InitSanitize /\ [][NextSanitize]_vars

\* detectAbuse on every text of at most MaxBlocks of these pieces, and on undefined.
Repeat(unit, n) == [i \in 1..n |-> unit]

RECURSIVE RepeatText(_, _)
RepeatText(t, n) == IF n = 0 THEN <<>> ELSE t \o RepeatText(t, n - 1)

AbuseBlocks ==
    { Repeat("A", 11), Repeat("A", 8), Repeat("a", 11), Repeat("a", 10), <<"a">>,
      Repeat("\n", 11), <<"\n">>, Repeat("U+2600", 4),
      RepeatText(<<"U+D83D", "U+DE00">>, 11),
      <<"b","i","t",".","l","y">>, <<"F","R","E","E">>, <<"c","r","y","p","t","o">> }

AbuseInputs == { Str(t) : t \in Texts(AbuseBlocks, MaxBlocks) } \cup { Undefined }

InitAbuse ==
    /\ InitStore /\ InitLimiters /\ reader = NoRead /\ http = NoHttp /\ InitHook
    /\ overview = NoOverview
    /\ task = NoTask
    /\ util \in { Called("detectAbuse", text, 0) : text \in AbuseInputs }

NextAbuse == DetectAbuseCall

SpecAbuse == InitAbuse /\ [][NextAbuse]_vars

\* GET /api/overview served while trackMessage calls for both platforms run.
NextOverview ==
    \/ /\ started < MaxStatsCalls
       /\ \E p \in Platforms, u \in { <<"7">>, <<"8">> } :
             TrackStart(1, p, u, <<"A","n","n">>, Num(3))
    \/ EnsureUser(1)
    \/ EnsureUserFails(1)
    \/ UpdateCounter(1)
    \/ UpdateCounterFails(1)
    \/ TrackReturn(1)
    \/ AdvanceDay(31)
    \/ OverviewRequest
    \/ \E p \in {"telegram", "discord"} : OverviewReadStep(p)
    \/ \E p \in {"telegram", "discord"} : OverviewReadFails(p)
    \/ OverviewResponded

SpecOverview == Init /\ [][NextOverview]_vars

\* getUserStats and the all-time leaderboard of Telegram read while trackMessage
\* calls for two users run and the days pass.
RankedUsers == { <<"7">>, <<"8">> }

NextRanked ==
    \/ /\ started < MaxRankedCalls
       /\ \E u \in RankedUsers : TrackStart(1, TELEGRAM, u, <<"A","n","n">>, Num(3))
    \/ EnsureUser(1)
    \/ EnsureUserFails(1)
    \/ UpdateCounter(1)
    \/ UpdateCounterFails(1)
    \/ TrackReturn(1)
    \/ \E d \in {31, 39} : AdvanceDay(d)
    \/ \E u \in RankedUsers : UserStatsCall(TELEGRAM, u)
    \/ LeaderboardCall("all", TELEGRAM, 0, Num(2))
    \/ ReadStep
    \/ ReadFails
    \/ ReadReturn

SpecRanked == Init /\ [][NextRanked]_vars

\* The /api surface: one address sends as many requests as it likes, a caller
\* without address headers sends one, and the clock advances by
\* half the window over MaxApiWindows windows.
IpA == <<"1",".","1">>
IpB == <<"2",".","2">>

ApiRequests ==
    { Get(<<"api", "health">>, <<>>, "", <<>>, <<>>),
      Get(<<"api", "docs">>, <<>>, "", <<>>, <<>>),
      Get(<<"api", "overview">>, <<>>, "", <<>>, <<>>),
      Get(<<"api", "stats">>, TELEGRAM, "", <<>>, <<>>),
      Get(<<"api", "stats">>, <<"x","y","z">>, "", <<>>, <<>>),
      Get(<<"api", "leaderboard">>, DISCORD, "weekly", <<>>, <<"5">>),
      Get(<<"api", "leaderboard">>, TELEGRAM, "", <<>>, <<"x">>),
      Get(<<"api", "user">>, TELEGRAM, "", <<"7">>, <<>>),
      Get(<<"api", "nope">>, <<>>, "", <<>>, <<>>),
      Get(<<"dashboard">>, <<>>, "", <<>>, <<>>) }

ApiHeaders == { <<IpA, <<>>>>, <<<<>>, IpA>>, <<IpA, IpB>>, <<<<>>, <<>>>> }

NextApi ==
    \/ \E req \in ApiRequests, h \in ApiHeaders :
          /\ ClientIp(h[1], h[2]) # IpA =>
                GetRequests(requests["api"], ClientIp(h[1], h[2])) = <<>>
          /\ ApiRequest(req, h[1], h[2])
    \/ ApiHandlerReturns
    \/ ApiHandlerFails
    \/ ApiResponded
    \/ /\ now + apiRateLimiter.windowMs \div 2 <= MaxApiWindows * apiRateLimiter.windowMs
       /\ ApiTick(apiRateLimiter.windowMs \div 2)

SpecApi == Init /\ [][NextApi]_vars

\* The webhook adapters, one request at a time, MaxUpdates requests.
Ann == Sender(7, FALSE, <<"A","n","n">>, <<>>, <<"a","n","n","7">>)
Bo == Sender(8, FALSE, <<>>, <<>>, <<"b","o">>)
Bot == Sender(9, TRUE, <<"B","o","t">>, <<>>, <<>>)

TextInputs ==
    { <<>>, <<"h","i">>, <<"/","l","e","a","d","e","r","b","o","a","r","d">>,
      <<"/","m","e">>, <<"/","p","i","n","g">>, <<" ","/","p","i","n","g">> }

ServiceInputs == { {}, {"pinned_message"} }

MessageInputs ==
    {NoMessage} \cup
    { Message(5, sv, t, f) :
        sv \in ServiceInputs, t \in TextInputs, f \in {NoSender, Ann, Bo, Bot} }

DiscordInputs ==
    {NoPayload} \cup
    { DiscordPayload(n, u, c) :
        n \in { <<>>, <<"b","o">> }, u \in { <<>>, <<"8">> }, c \in { <<>>, <<"h","e","y">> } }

NextHook ==
    \/ /\ received < MaxUpdates
       /\ \E message \in MessageInputs, botToken \in BOOLEAN :
             TelegramWebhook(message, botToken)
    \/ /\ received < MaxUpdates
       /\ \E payload \in DiscordInputs : DiscordWebhook(payload)
    \/ EnsureUser(1)
    \/ EnsureUserFails(1)
    \/ UpdateCounter(1)
    \/ UpdateCounterFails(1)
    \/ WebhookReturns
    \/ WebhookResponded
    \/ ChannelInsertLands
    \/ ChannelInsertFails

SpecHook == Init /\ [][NextHook]_vars

\* The Telegram adapter with the command handler it starts: MaxCommands
\* updates, each arriving when the handler of the one before has settled and
\* the store has run what was sent to it; every await of the handler and of
\* trackMessage returns or throws, in every order.
CommandInputs ==
    { Message(5, {}, t, f) :
        t \in { <<"/","s","u","m","m","a","r","y">>, <<"/","p","i","n","g">>,
                <<"/","s","t","a","t","s">>, <<"/","m","e">>,
                <<"/","m","o","n","t","h","l","y">> },
        f \in { Ann } }
    \cup { Message(5, {}, <<"/","m","e">>, NoSender) }

NextTask ==
    \/ /\ received < MaxCommands
       /\ task.st = "idle"
       /\ inserts = <<>>
       /\ \E message \in CommandInputs : TelegramWebhook(message, TRUE)
    \/ EnsureUser(1)
    \/ EnsureUserFails(1)
    \/ UpdateCounter(1)
    \/ UpdateCounterFails(1)
    \/ WebhookReturns
    \/ WebhookResponded
    \/ ChannelInsertLands
    \/ ChannelInsertFails
    \/ TaskAwaitReturns
    \/ TaskAwaitThrows
    \/ TaskSettled

SpecTask == Init /\ [][NextTask]_vars

\* The rate-limited commands sent by a bot account (its messages are not
\* tracked, its commands are served), one update after the other has been
\* served, while the clock advances by half the window of commandRateLimiter.
Robot == Sender(8, TRUE, <<"R","o","b","o">>, <<>>, <<>>)

LimitedCommandTexts ==
    { <<"/","s","t","a","t","s">>, <<"/","s","t","a","t","s"," ","w","e","e","k">>,
      <<"/","l","e","a","d","e","r","b","o","a","r","d">>, <<"/","t","o","p">>,
      <<"/","r","a","n","k","i","n","g">>, <<"/","d","a","i","l","y">>,
      <<"/","w","e","e","k","l","y">>, <<"/","m","o","n","t","h","l","y">>,
      <<"/","s","u","m","m","a","r","y">> }

NextCommands ==
    \/ /\ received < MaxLimitedCommands
       /\ task.st = "idle"
       /\ \E t \in LimitedCommandTexts : TelegramWebhook(Message(5, {}, t, Robot), TRUE)
    \/ WebhookResponded
    \/ TaskAwaitReturns
    \/ TaskAwaitThrows
    \/ TaskSettled
    \/ /\ now < MaxWindows * commandRateLimiter.windowMs
       /\ task.st = "idle"
       /\ hook.pc = "idle"
       /\ Tick(commandRateLimiter.windowMs \div 2)
       /\ UNCHANGED otherThanLimiter

SpecCommands == Init /\ [][NextCommands]_vars

-----------------------------------------------------------------------------
(* Claims *)

Quiescent == \A i \in Slots : ~InFlight(calls[i])

\* C1: for every counter key (date, platform, user), the chat_counter row exists
\* exactly when a trackMessage call for it has returned normally, its
\* message_count is the number of those calls and its message_length the sum of
\* their lengths; the first call creates the row with count 1 and its length.
C1_CounterEqualsTrackedCalls ==
    /\ DOMAIN chat_counter = DOMAIN tracked
    /\ \A key \in DOMAIN tracked :
          /\ chat_counter[key].message_count = tracked[key].n
          /\ chat_counter[key].message_length = tracked[key].sum

C1_ThreeMessagesCounted ==
    \E key \in DOMAIN tracked :
        /\ tracked[key].n = 3
        /\ tracked[key].sum = 6
        /\ key \in DOMAIN chat_counter
        /\ chat_counter[key].message_count = 3

\* C2: no lost updates: once no trackMessage call is in flight, every counter
\* row that was written by calls overlapping in time on the same key holds the
\* number of those calls and the sum of their lengths.
C2_NoLostUpdates ==
    Quiescent =>
        \A key \in DOMAIN tracked :
            tracked[key].raced =>
                /\ key \in DOMAIN chat_counter
                /\ chat_counter[key].message_count = tracked[key].n
                /\ chat_counter[key].message_length = tracked[key].sum

C2_OverlappingCallsCompleted ==
    /\ Quiescent
    /\ \E key \in DOMAIN tracked :
          tracked[key].raced /\ tracked[key].n >= 2 /\ tracked[key].sum > 0

\* C3: with maxRequests = R and windowMs = W: when R checks of a key were
\* accepted less than W ago, isRateLimited(key) returns true; when no check of
\* the key was accepted during the last W, it returns false.
C3_LimitedExactlyWhenWindowFull ==
    \A L \in Limiters, k \in LimiterKeys :
        /\ Len(accepted[L][k]) >= Limiter(L).maxRequests
              => isRateLimited(requests[L], Limiter(L), k, now)
        /\ accepted[L][k] = <<>>
              => ~isRateLimited(requests[L], Limiter(L), k, now)

C3_CheckRejectedInFullWindow ==
    /\ lastCheck.op = "isRateLimited"
    /\ lastCheck.limited
    /\ Len(accepted[lastCheck.lim][lastCheck.key]) = Limiter(lastCheck.lim).maxRequests

\* C4: sliding-window bound: for every limiter and key, at every instant t at
\* most maxRequests checks were accepted in the interval (t - windowMs, t],
\* whatever calls of isRateLimited, getRemainingRequests, getResetTime and
\* cleanup were made.
C4_SlidingWindowBound ==
    \A L \in Limiters, k \in LimiterKeys :
        Len(accepted[L][k]) <= Limiter(L).maxRequests

C4_WindowFilledOverTime ==
    \E L \in Limiters, k \in LimiterKeys :
        /\ Len(accepted[L][k]) = Limiter(L).maxRequests
        /\ accepted[L][k][1] < now
        /\ accepted[L][k][Len(accepted[L][k])] = now
        /\ k \in DOMAIN requests[L]
        /\ Len(requests[L][k]) = Limiter(L).maxRequests

\* the rows of a returned leaderboard and the counter rows of its period
LeaderboardRows == reader.res[1]

InPeriod(k) ==
    /\ k[2] = reader.platform
    /\ CASE reader.fn = "daily" -> k[1] = reader.filter.day
         [] reader.fn = "weekly" -> k[1] >= reader.day - 7
         [] reader.fn = "monthly" -> k[1] >= reader.day - ((reader.day - 1) % 30)
         [] reader.fn = "all" -> TRUE

\* C6: a returned leaderboard (daily, weekly, monthly, all-time) is sorted by the
\* message count summed over the period, descending, ties by the summed length,
\* descending; it has one row per user, each with the user's sums, and exactly
\* min(limit, number of users with a counter row in the period) rows.
C6_LeaderboardSortedAndTruncated ==
    (reader.fn \in Leaderboards /\ reader.st = "returned") =>
        LET rows == LeaderboardRows
            periodRows == { k \in DOMAIN chat_counter : InPeriod(k) }
            periodUsers == { k[3] : k \in periodRows }
        IN /\ \A i, j \in 1..Len(rows) :
                 i < j =>
                    \/ rows[i].total_messages > rows[j].total_messages
                    \/ /\ rows[i].total_messages = rows[j].total_messages
                       /\ rows[i].total_length >= rows[j].total_length
           /\ \A i, j \in 1..Len(rows) : i # j => rows[i].user_id # rows[j].user_id
           /\ \A i \in 1..Len(rows) :
                 /\ rows[i].user_id \in periodUsers
                 /\ rows[i].total_messages =
                       SumCount(chat_counter, { k \in periodRows : k[3] = rows[i].user_id })
                 /\ rows[i].total_length =
                       SumLength(chat_counter, { k \in periodRows : k[3] = rows[i].user_id })
           /\ Len(rows) = IF reader.limit < Cardinality(periodUsers)
                          THEN reader.limit ELSE Cardinality(periodUsers)

C6_TieBrokenByLength ==
    /\ reader.fn = "weekly"
    /\ reader.st = "returned"
    /\ reader.limit = 2
    /\ Len(LeaderboardRows) = 2
    /\ LeaderboardRows[1].total_messages = LeaderboardRows[2].total_messages
    /\ LeaderboardRows[1].total_length > LeaderboardRows[2].total_length

\* the call a slot or the reader holds was given arguments outside the ranges
ReadBegun(r) == r.st \in {"query", "returned", "threw"}
TrackBegun(c) == c.st \in {"ensureUser", "updateCounter", "rejected"}

\* C7 as stated: a statistics function or trackMessage given a platform that is
\* not one of the strings telegram and discord, a limit that is no integer in
\* [1,1000], a blank userId or displayName, or a messageLength that is no
\* integer >= 0, throws with no statement sent and the store unchanged.
C7_RejectsPlatformOutsideSet ==
    [][ /\ (reader' # reader /\ ReadBegun(reader')
              /\ (reader'.rawPlatform \notin Platforms \/ reader'.badArg))
           => (reader'.st = "threw" /\ reader'.stmts = 0 /\ UNCHANGED storeVars)
        /\ \A i \in Slots :
             (calls'[i] # calls[i] /\ TrackBegun(calls'[i])
                /\ (calls'[i].rawPlatform \notin Platforms \/ calls'[i].badArg))
             => (calls'[i].st = "rejected" /\ calls'[i].stmts = 0 /\ UNCHANGED storeVars)
      ]_vars

\* C7 as amended: the same, for a platform that is empty or whose lower-case
\* form is neither telegram nor discord (the validation folds case).
C7_ValidationPrecedesStatements ==
    [][ /\ (reader' # reader /\ ReadBegun(reader')
              /\ (ToLowerCase(reader'.rawPlatform) \notin Platforms \/ reader'.badArg))
           => (reader'.st = "threw" /\ reader'.stmts = 0 /\ UNCHANGED storeVars)
        /\ \A i \in Slots :
             (calls'[i] # calls[i] /\ TrackBegun(calls'[i])
                /\ (ToLowerCase(calls'[i].rawPlatform) \notin Platforms \/ calls'[i].badArg))
             => (calls'[i].st = "rejected" /\ calls'[i].stmts = 0 /\ UNCHANGED storeVars)
      ]_vars

C7_InvalidPlatformRejected ==
    /\ reader.fn = "platformStats"
    /\ reader.st = "threw"
    /\ reader.stmts = 0
    /\ reader.rawPlatform = <<"x","y","z">>
    /\ chat_counter # <<>>

TelegramQualifies(message) ==
    /\ message.present
    /\ message.service = {}
    /\ message.from.present
    /\ ~message.from.is_bot

DiscordQualifies(payload) ==
    payload.present /\ payload.username # <<>> /\ payload.user_id # <<>>

\* C8: a webhook request makes one trackMessage call when its message
\* qualifies (Telegram: a new message, no service event, with a sender that is
\* not a bot; Discord: a payload with username and user_id) and none otherwise.
C8_TrackedOncePerQualifyingMessage ==
    hook.pc \in {"track", "responded"} =>
        /\ hook.kind = "telegram" =>
              hook.tracks = IF TelegramQualifies(hook.message) THEN 1 ELSE 0
        /\ hook.kind = "discord" =>
              hook.tracks = IF DiscordQualifies(hook.payload) THEN 1 ELSE 0
        /\ (hook.pc = "responded" /\ hook.status = 200 /\ hook.tracks = 1) =>
              LET key == IF hook.kind = "telegram"
                         THEN <<today, TELEGRAM, NumberToString(hook.message.from.id)>>
                         ELSE <<today, DISCORD, Trim(hook.payload.user_id)>>
              IN key \in DOMAIN tracked /\ key \in DOMAIN chat_counter

C8_QualifyingMessageTracked ==
    /\ hook.kind = "telegram"
    /\ hook.pc = "responded"
    /\ hook.status = 200
    /\ hook.tracks = 1
    /\ hook.message.from.id = 7
    /\ hook.message.text = <<"/","p","i","n","g">>
    /\ <<today, TELEGRAM, <<"7">>>> \in DOMAIN chat_counter
    /\ chat_counter[<<today, TELEGRAM, <<"7">>>>].message_length = 5

RecognizedPrefixes ==
    { <<"/","s","u","m","m","a","r","y">>, <<"/","p","i","n","g">>, <<"/","h","e","l","p">>, <<"/","s","t","a","t","s">>, <<"/","l","e","a","d","e","r","b","o","a","r","d">>, <<"/","m","y","s","t","a","t","s">>, <<"/","m","e">>,
      <<"/","t","o","p">>, <<"/","r","a","n","k","i","n","g">>, <<"/","d","a","i","l","y">>, <<"/","w","e","e","k","l","y">>, <<"/","m","o","n","t","h","l","y">> }

HasRecognizedPrefix(text) == \E prefix \in RecognizedPrefixes : StartsWith(text, prefix)

\* C9: a Telegram update starts at most one command handler; a text with a
\* recognized prefix (one or several) in a new non-service message starts
\* exactly one when the bot token is set, and a text with no recognized prefix
\* or a missing bot token starts none.
C9_AtMostOneCommandHandler ==
    (hook.kind = "telegram" /\ hook.pc # "idle") =>
        /\ Len(hook.dispatched) <= 1
        /\ (~hook.botToken \/ ~HasRecognizedPrefix(hook.message.text)) =>
              hook.dispatched = <<>>
        /\ (/\ hook.botToken
            /\ hook.message.present
            /\ hook.message.service = {}
            /\ HasRecognizedPrefix(hook.message.text)) => Len(hook.dispatched) = 1

C9_LeaderboardTextStartsOneHandler ==
    /\ hook.kind = "telegram"
    /\ hook.pc = "responded"
    /\ hook.botToken
    /\ hook.message.text = <<"/","l","e","a","d","e","r","b","o","a","r","d">>
    /\ isStatsCommand(hook.message.text)
    /\ isLeaderboardCommand(hook.message.text)
    /\ Len(hook.dispatched) = 1

\* C10: for a Telegram update whose message is from a bot, has no sender or is a
\* service event, no trackMessage call is made, no channel-message statement is
\* sent and no command handler is started.
C10_IgnoredUpdateStartsNothing ==
    (/\ hook.kind = "telegram"
     /\ hook.pc # "idle"
     /\ hook.message.present
     /\ \/ hook.message.service # {}
        \/ ~hook.message.from.present
        \/ hook.message.from.is_bot) =>
        /\ hook.tracks = 0
        /\ hook.recorded = 0
        /\ hook.dispatched = <<>>

\* C14: every chat_counter row has a users row for its (platform, user_id), in
\* every state, also between the two statements of a call and after a failure;
\* chat_counter changes only in the step that completes a call, and the step in
\* which a call fails changes no row, so a call that does not complete leaves at
\* most its users row.
C14_CounterRowsHaveUsers ==
    /\ [](\A key \in DOMAIN chat_counter : <<key[2], key[3]>> \in DOMAIN users)
    /\ [][ /\ chat_counter' # chat_counter =>
                \E i \in Slots : calls[i].st = "updateCounter" /\ calls'[i].st = "done"
           /\ \A i \in Slots :
                (calls[i].st # "failed" /\ calls'[i].st = "failed") =>
                    UNCHANGED <<users, chat_counter>>
         ]_vars

C14_UserRowWithoutCounterRow ==
    /\ \E i \in Slots : calls[i].st = "failed" /\ calls[i].stmts = 2
    /\ \E u \in DOMAIN users :
          \A key \in DOMAIN chat_counter : <<key[2], key[3]>> # u
    /\ Quiescent

\* C15: a users row, once written, keeps its display_name and is never
\* removed, whatever calls follow; the table holds one row per
\* (platform, user_id).
C15_FirstSeenNameWins ==
    [][ \A u \in DOMAIN users : u \in DOMAIN users' /\ users'[u] = users[u] ]_vars

C15_LaterNameIgnored ==
    \E i \in Slots :
        /\ calls[i].st = "updateCounter"
        /\ <<calls[i].platform, calls[i].userId>> \in DOMAIN users
        /\ users[<<calls[i].platform, calls[i].userId>>] # calls[i].name
        /\ \E j \in Slots \ {i} :
              calls[j].st = "updateCounter" /\ CallKey(calls[j]) = CallKey(calls[i])

\* C20: the three limiter instances have independent state: a call on one
\* instance leaves the timestamps of the other two unchanged, and whether a key
\* is limited on an instance is decided by the checks accepted on that instance
\* alone.
C20_InstancesIndependent ==
    /\ [](\A L \in Limiters, k \in LimiterKeys :
             isRateLimited(requests[L], Limiter(L), k, now)
                <=> Len(accepted[L][k]) >= Limiter(L).maxRequests)
    /\ [][ \A L \in Limiters :
             requests'[L] # requests[L] =>
                /\ lastCheck'.lim = L
                /\ \A M \in Limiters \ {L} : requests'[M] = requests[M] ]_vars

C20_LimitedOnOneAcceptedOnAnother ==
    /\ lastCheck.op = "isRateLimited"
    /\ lastCheck.lim = "command"
    /\ ~lastCheck.limited
    /\ isRateLimited(requests["summary"], summaryRateLimiter, lastCheck.key, now)
    /\ isRateLimited(requests["api"], apiRateLimiter, lastCheck.key, now)
    /\ now = commandRateLimiter.windowMs

\* C17: getPlatformStats is a pure read: the result it returns is the one its
\* statements give again on the store as it is (no write in between, same
\* date), namely the users of the platform, the sum of its message counts, its
\* users with a counter row today and those with one in the last seven days;
\* and no step of a statistics call changes a users or chat_counter row.
C17_PlatformStatsPureRead ==
    /\ []((reader.fn = "platformStats" /\ reader.st = "returned") =>
            LET rows == { k \in DOMAIN chat_counter : k[2] = reader.platform }
            IN /\ \A n \in 1..4 :
                     StatementResults(reader, n, chat_counter, users) = { reader.res[n] }
               /\ reader.day = today
               /\ reader.res[1] =
                     Cardinality({ u \in DOMAIN users : u[1] = reader.platform })
               /\ reader.res[2] = SumCount(chat_counter, rows)
               /\ reader.res[3] = Cardinality({ k[3] : k \in { x \in rows : x[1] = today } })
               /\ reader.res[4] =
                     Cardinality({ k[3] : k \in { x \in rows : x[1] >= today - 7 } }))
    /\ [][ reader' # reader => UNCHANGED <<users, chat_counter>> ]_vars

C17_PlatformStatsReturned ==
    /\ reader.fn = "platformStats"
    /\ reader.st = "returned"
    /\ reader.platform = TELEGRAM
    /\ reader.res[1] = 2
    /\ reader.res[2] = 2
    /\ reader.res[3] = 1
    /\ reader.res[4] = 1

\* C13: a leaderboard request whose limit is not a positive number (here a
\* non-numeric text), with a valid platform and period, is answered with
\* status 400 and sends no statement to the store.
C13_InvalidLimitAnswered400 ==
    ( /\ http.pc = "responded"
      /\ http.handler
      /\ http.req.path = <<"api", "leaderboard">>
      /\ http.req.platform \in Platforms
      /\ http.req.limit # <<>>
      /\ \/ ParseInt(http.req.limit) = NaN
         \/ ParseInt(http.req.limit)[1] < 1 )
    => (http.status = 400 /\ http.sent = 0)

\* C16: in every successful /api/overview response each total figure is the
\* sum of the telegram and the discord figure of that same response, also
\* when trackMessage writes land between the statements of the two calls.
C16_TotalsAreSumsOfPlatforms ==
    (overview.pc = "responded" /\ overview.status = 200) =>
        /\ overview.total.totalMessages =
             overview.platforms.telegram.totalMessages
               + overview.platforms.discord.totalMessages
        /\ overview.total.totalUsers =
             overview.platforms.telegram.totalUsers + overview.platforms.discord.totalUsers
        /\ overview.total.activeToday =
             overview.platforms.telegram.activeToday
               + overview.platforms.discord.activeToday
        /\ overview.total.activeThisWeek =
             overview.platforms.telegram.activeThisWeek
               + overview.platforms.discord.activeThisWeek

\* a response whose telegram figures were read around a write: no telegram
\* user yet, one telegram message already
C16_OverviewReadAroundWrite ==
    /\ overview.pc = "responded"
    /\ overview.status = 200
    /\ overview.platforms.telegram.totalUsers = 0
    /\ overview.platforms.telegram.totalMessages = 1
    /\ overview.platforms.discord.totalMessages = 1
    /\ overview.total.totalMessages = 2

C19_RunOfElevenIsFlood ==
    ( /\ util.fn = "detectAbuse"
      /\ util.st = "returned"
      /\ util.input.type = "string"
      /\ \E i \in 1..Len(util.input.value) :
            /\ i + 10 <= Len(util.input.value)
            /\ \A j \in i..(i + 10) : util.input.value[j] = util.input.value[i] )
    => (util.out.isFlood /\ util.out.score >= 30)

\* C11: the Telegram adapter answers a tracked message with 200 and
\* success = true exactly when trackMessage returned, whatever the command
\* handler it started has done meanwhile; and no step of that handler changes
\* the response, the trackMessage call, the counter store or the recorded
\* channel messages.
C11_AckIndependentOfTask ==
    /\ [][ (hook.kind = "telegram" /\ hook.pc = "track" /\ hook'.pc = "responded")
           => ((hook'.status = 200 /\ hook'.success) <=> calls[1].st = "done") ]_vars
    /\ [][ (task' # task /\ received' = received)
           => UNCHANGED <<hook, trackVars, telegram_channel_messages, inserts>> ]_vars

\* a tracked /summary acknowledged with 200 although its handler's promise
\* was rejected before the response
C11_AcknowledgedAfterTaskFailed ==
    /\ hook.kind = "telegram"
    /\ hook.pc = "responded"
    /\ hook.dispatched = <<"processSummaryCommand">>
    /\ hook.tracks = 1
    /\ hook.status = 200
    /\ hook.success
    /\ task.st = "rejected"

\* C12: the promise of a background command handler is never rejected.
C12_HandlerPromiseNeverRejects == task.st # "rejected"

\* C23: a rejected isRateLimited call leaves the stored timestamps of every key
\* as they were; and a key with a request inside the window is accepted again
\* no later than windowMs after the oldest such request.
C23_RejectedCheckRecordsNothing ==
    /\ [][ (lastCheck'.op = "isRateLimited" /\ lastCheck'.limited)
           => requests' = requests ]_vars
    /\ [](\A L \in Exercised, k \in CallerKeys :
            LET valid == ValidRequests(requests[L], k, now, Limiter(L).windowMs)
            IN valid # <<>> =>
                 ~isRateLimited(requests[L], Limiter(L), k,
                                SeqMin(valid) + Limiter(L).windowMs))

\* a key rejected half a window after its oldest request
C23_RejectedLaterInWindow ==
    /\ lastCheck.op = "isRateLimited"
    /\ lastCheck.limited
    /\ lastCheck.lim = "summary"
    /\ now > SeqMin(requests["summary"][lastCheck.key])
    /\ Len(requests["summary"][lastCheck.key]) = summaryRateLimiter.maxRequests

\* C26: at an instant at which isRateLimited(k) returns true, getResetTime(k)
\* is positive and at most windowMs and getRemainingRequests(k) is 0; and no
\* key ever has more than maxRequests timestamps stored.
C26_ResetTimePositiveWhenLimited ==
    \A L \in Exercised, k \in CallerKeys :
        /\ Len(GetRequests(requests[L], k)) <= Limiter(L).maxRequests
        /\ isRateLimited(requests[L], Limiter(L), k, now) =>
             /\ getResetTime(requests[L], Limiter(L), k, now) > 0
             /\ getResetTime(requests[L], Limiter(L), k, now) <= Limiter(L).windowMs
             /\ getRemainingRequests(requests[L], Limiter(L), k, now) = 0

\* a limited key with half a window left to wait
C26_LimitedWithHalfWindowLeft ==
    \E k \in CallerKeys :
        /\ lastCheck.op = "isRateLimited"
        /\ lastCheck.limited
        /\ lastCheck.key = k
        /\ isRateLimited(requests["command"], commandRateLimiter, k, now)
        /\ getResetTime(requests["command"], commandRateLimiter, k, now)
             = commandRateLimiter.windowMs \div 2

\* C27: cleanup() removes exactly the keys without a timestamp inside the
\* window and the expired timestamps of the others; at every later instant
\* isRateLimited and getRemainingRequests return the same with and without it,
\* and so do they for a key after a further isRateLimited call for that key
\* made on either Map.
C27_CleanupTransparent ==
    \A L \in Exercised :
        LET cfg == Limiter(L)
            kept == requests[L]
            cleaned == cleanup(requests[L], cfg, now)
            later == { now, now + cfg.windowMs \div 2, now + cfg.windowMs }
        IN /\ DOMAIN cleaned =
                { k \in DOMAIN kept : \E i \in 1..Len(kept[k]) : now - kept[k][i] < cfg.windowMs }
           /\ \A k \in CallerKeys, t \in later :
                 /\ isRateLimited(cleaned, cfg, k, t) = isRateLimited(kept, cfg, k, t)
                 /\ getRemainingRequests(cleaned, cfg, k, t)
                      = getRemainingRequests(kept, cfg, k, t)
                 /\ \A t2 \in { t, t + cfg.windowMs \div 2 } :
                       LET afterCleaned == AfterIsRateLimited(cleaned, cfg, k, t)
                           afterKept == AfterIsRateLimited(kept, cfg, k, t)
                       IN /\ isRateLimited(afterCleaned, cfg, k, t2)
                             = isRateLimited(afterKept, cfg, k, t2)
                          /\ getRemainingRequests(afterCleaned, cfg, k, t2)
                             = getRemainingRequests(afterKept, cfg, k, t2)

\* cleanup() has run a window after the requests of one key and has kept the
\* other key with its request of this instant
C27_CleanupRemovedKey ==
    /\ lastCheck.op = "cleanup"
    /\ lastCheck.lim = "summary"
    /\ now >= summaryRateLimiter.windowMs
    /\ DOMAIN requests["summary"] = { <<"8">> }
    /\ requests["summary"][<<"8">>] = << now >>
    /\ accepted["summary"][<<"8">>] = << now >>

C21_RankIsRowNumber ==
    /\ [](\A u \in RankedUsers \cup { <<"9">> } :
            LET ids == RankedIds(chat_counter, TELEGRAM)
                numberings == RowNumbers(chat_counter, TELEGRAM)
            IN /\ numberings # {}
               /\ RankResults(chat_counter, TELEGRAM, u) =
                    IF u \in ids THEN { nb[u] : nb \in numberings } ELSE {0}
               /\ u \in ids => RankResults(chat_counter, TELEGRAM, u)
                                  \subseteq 1..Cardinality(ids))
    /\ [][ (/\ reader.fn = "userStats"
            /\ reader.st = "query"
            /\ reader'.st = "returned")
           => LET ids == RankedIds(chat_counter, TELEGRAM)
                  rank == reader'.res[5]
              IN /\ rank = 0 <=> reader.userId \notin ids
                 /\ rank # 0 => \E nb \in RowNumbers(chat_counter, TELEGRAM) :
                                   nb[reader.userId] = rank ]_vars

\* getUserStats returned rank 2 for the user with one message of three
C21_SecondOfTwoRanked ==
    /\ reader.fn = "userStats"
    /\ reader.st = "returned"
    /\ reader.res[5] = 2
    /\ reader.res[4] = 1
    /\ AllTimeTotal(chat_counter, TELEGRAM, reader.userId) = 1
    /\ \E u \in RankedUsers : AllTimeTotal(chat_counter, TELEGRAM, u) = 2

\* C28: with trackMessage calls interleaved with its five statements,
\* getUserStats returns daily <= weekly <= allTime and daily <= monthly <= allTime.
C28_UserStatsTotalsOrdered ==
    (reader.fn = "userStats" /\ reader.st = "returned") =>
        /\ reader.res[1] <= reader.res[2]
        /\ reader.res[2] <= reader.res[4]
        /\ reader.res[1] <= reader.res[3]
        /\ reader.res[3] <= reader.res[4]

\* the user's messages were all counted on the day of the read, one before the
\* daily statement and two before the all-time statement
C28_WritesBetweenStatements ==
    /\ reader.fn = "userStats"
    /\ reader.st = "returned"
    /\ reader.res[1] = 1
    /\ reader.res[4] = 3
    /\ \A k \in DOMAIN chat_counter : k[1] = reader.day /\ k[3] = reader.userId

\* C29: on a store in which no two users of the platform have equal all-time
\* sums, the rank of getUserStats for a user of the all-time leaderboard is the
\* user's 1-based position in it, and allTime is that entry's total_messages.
C29_RankIsLeaderboardPosition ==
    LET ids == RankedIds(chat_counter, TELEGRAM)
        noTies == \A a, b \in ids :
                     a # b => AllTimeTotal(chat_counter, TELEGRAM, a)
                                 # AllTimeTotal(chat_counter, TELEGRAM, b)
    IN noTies =>
         \A limit \in 1..2 :
            \A rows \in StatementResults(
                          Reading("all", TELEGRAM, <<>>, limit, AnyDay, today),
                          1, chat_counter, users) :
               \A i \in 1..Len(rows) :
                  /\ RankResults(chat_counter, TELEGRAM, rows[i].user_id) = {i}
                  /\ StatementResults(
                        Reading("userStats", TELEGRAM, rows[i].user_id, 0, AnyDay, today),
                        4, chat_counter, users) = { rows[i].total_messages }

\* the all-time leaderboard returned two users with different totals
C29_TwoUsersRankedApart ==
    /\ reader.fn = "all"
    /\ reader.st = "returned"
    /\ Len(reader.res[1]) = 2
    /\ reader.res[1][1].total_messages > reader.res[1][2].total_messages
    /\ RankResults(chat_counter, TELEGRAM, reader.res[1][2].user_id) = {2}

\* C22: the handler started for the text /stats reads the sender's statistics
\* (getUserStats), and the handler started for /leaderboard computes the
\* all-time leaderboard.
C22_StatsRepliesPersonalStatistics ==
    (hook.kind = "telegram" /\ hook.dispatched # <<>>) =>
        LET handler == hook.dispatched[1]
            awaited == { Script(handler)[i] : i \in 1..Len(Script(handler)) }
        IN /\ hook.message.text = <<"/","s","t","a","t","s">>
                => "getUserStats" \in awaited
           /\ hook.message.text = <<"/","l","e","a","d","e","r","b","o","a","r","d">>
                => /\ "getLeaderboard" \in awaited
                   /\ LeaderboardOf(handler, hook.message.text) = "all-time"

\* C25: a handler of /stats, /leaderboard, /top, /ranking, /daily, /weekly,
\* /monthly (commandRateLimiter) or /summary (summaryRateLimiter) asks its
\* limiter for the sender before anything else; when the limiter rejects, the
\* handler awaits nothing but the sending of messages and the limiter records
\* nothing; a handler that goes on to its typing action and reads is an accepted
\* check, of which a user has at most 5 per 60 s for leaderboards and 2 per
\* 300 s for summaries.
C25_LimitedCommandDoesNoWork ==
    /\ [][ (task.st = "idle" /\ task'.st = "running") =>
             LET L == HandlerLimiter(task'.handler)
                 key == TaskUserId(hook'.message)
             IN /\ L = (IF task'.handler = "processSummaryCommand"
                        THEN "summary" ELSE "command")
                /\ IF isRateLimited(requests[L], Limiter(L), key, now)
                   THEN /\ task'.todo = <<"sendTelegramMessage">>
                        /\ requests' = requests
                        /\ accepted' = accepted
                   ELSE /\ task'.todo = Script(task'.handler)
                        /\ accepted' = [accepted EXCEPT ![L][key] = Append(@, now)] ]_vars
    /\ [][ (task.st = "running" /\ task'.st = "running") =>
             \A i \in 1..Len(task'.todo) :
                \/ task'.todo[i] = "sendTelegramMessage"
                \/ \E j \in 1..Len(task.todo) : task.todo[j] = task'.todo[i] ]_vars
    /\ [](\A key \in LimiterKeys :
            /\ Len(accepted["command"][key]) <= 5
            /\ Len(accepted["summary"][key]) <= 2
            /\ \A i \in 1..Len(accepted["command"][key]) :
                  now - accepted["command"][key][i] < 60000
            /\ \A i \in 1..Len(accepted["summary"][key]) :
                  now - accepted["summary"][key][i] < 300000)

\* the sixth leaderboard command of a user within a minute is answered with
\* the wait notice alone
C25_SixthCommandOnlyNotified ==
    /\ task.handler = "processLeaderboardCommand"
    /\ task.st = "resolved"
    /\ task.replies = 1
    /\ ~task.caught
    /\ Len(accepted["command"][<<"8">>]) = 5
    /\ received = 6
    /\ now > 0

\* C30: the channel-message row of a Telegram message is written before
\* trackMessage starts: while trackMessage runs and when the adapter has
\* answered {success: true} for a tracked message, no channel-message statement
\* is outstanding and the row of the message is in telegram_channel_messages
\* (so a failed insert is never followed by a trackMessage call).
C30_ChannelRowWrittenBeforeTracking ==
    (hook.kind = "telegram" /\ hook.tracks = 1) =>
        /\ inserts = <<>>
        /\ \E i \in 1..Len(telegram_channel_messages) :
              telegram_channel_messages[i] = ChannelRow(hook.message)

====
